---- MODULE Spec2Model ----
(***************************************************************************)
(* SkyHetu runtime: single-pass bytecode compiler, stack VM with closures  *)
(* and upvalues, mark-sweep heap and causality log.                        *)
(*                                                                         *)
(* The host (lib::run, the REPL of main.rs) compiles a parsed program      *)
(* with the VM's heap, registers the returned chunks and calls VM::run.    *)
(* The VM then executes one opcode per step.  Programs are given as ASTs   *)
(* (the parser's output) and compiled by the model of compiler.rs.         *)
(***************************************************************************)
EXTENDS Integers, Sequences, FiniteSets, TLC

(***************************************************************************)
(* Bounds of the exploration                                               *)
(***************************************************************************)
\* number of VM::run calls the host makes on one VM (REPL lines)
MaxRuns == 2
\* largest heap (in object slots) on which the host uses the heap API itself
MaxHostHeap == 6

(***************************************************************************)
(* value.rs: Value                                                         *)
(***************************************************************************)
Nil == [t |-> "Nil"]
Number(n) == [t |-> "Number", n |-> n]
String(s) == [t |-> "String", s |-> s]
Bool(b) == [t |-> "Bool", b |-> b]
FunctionV(h) == [t |-> "Function", h |-> h]
ClosureV(h) == [t |-> "Closure", h |-> h]
NativeFunction(name) == [t |-> "NativeFunction", nat |-> name]
ArrayV(h) == [t |-> "Array", h |-> h]
ClassV(h) == [t |-> "Class", h |-> h]
InstanceV(h) == [t |-> "Instance", h |-> h]
BoundMethodV(h) == [t |-> "BoundMethod", h |-> h]

HeapTags == {"Function", "Closure", "Array", "Class", "Instance", "BoundMethod"}

\* Value::children
ValueChildren(v) == IF v.t \in HeapTags THEN <<v.h>> ELSE <<>>

\* Value::is_truthy
IsTruthy(v) ==
    CASE v.t = "Nil" -> FALSE
      [] v.t = "Bool" -> v.b
      [] v.t = "Number" -> v.n # 0
      [] v.t = "String" -> v.s # ""
      [] OTHER -> TRUE

\* impl PartialEq for Value: heap variants and natives are never equal
ValueEq(a, b) ==
    CASE a.t = "Number" /\ b.t = "Number" -> a.n = b.n
      [] a.t = "String" /\ b.t = "String" -> a.s = b.s
      [] a.t = "Bool" /\ b.t = "Bool" -> a.b = b.b
      [] a.t = "Nil" /\ b.t = "Nil" -> TRUE
      [] OTHER -> FALSE

(***************************************************************************)
(* bytecode.rs: OpCode (repr(u8), in declaration order) and Chunk          *)
(***************************************************************************)
OpNames == <<"Constant", "Nil", "True", "False", "Pop", "Dup",
             "DefineGlobal", "GetGlobal", "SetGlobal", "DefineState",
             "GetLocal", "SetLocal", "TransitionLocal", "Transition",
             "Add", "Subtract", "Multiply", "Divide", "Modulo", "Negate",
             "Equal", "NotEqual", "Less", "LessEqual", "Greater", "GreaterEqual",
             "Not", "Jump", "JumpIfFalse", "JumpIfTrue", "Loop",
             "Call", "Return", "Closure",
             "GetUpvalue", "SetUpvalue", "TransitionUpvalue", "CloseUpvalue",
             "Print", "Why", "Time", "Break", "Continue",
             "Array", "Index", "Class", "Method", "GetProperty", "SetProperty",
             "Halt">>

\* `op as u8`
OpByte(name) == (CHOOSE i \in 1..Len(OpNames) : OpNames[i] = name) - 1
\* OpCode::from(u8)
OpOf(byte) == OpNames[byte + 1]

\* Chunk::new (the `lines` vector only serves error messages and is left out)
NewChunk == [code |-> <<>>, constants |-> <<>>, names |-> <<>>]

\* Chunk::write / Chunk::write_byte
WriteByte(chunk, byte) == [chunk EXCEPT !.code = Append(@, byte)]
\* Chunk::write_u16: big-endian
WriteU16(chunk, value) ==
    WriteByte(WriteByte(chunk, (value \div 256) % 256), value % 256)
\* Chunk::read_u16(offset), offset counted from 0
ReadU16(chunk, offset) == chunk.code[offset + 1] * 256 + chunk.code[offset + 2]

\* Chunk::add_constant: returns <<chunk, index>>
AddConstant(chunk, value) ==
    <<[chunk EXCEPT !.constants = Append(@, value)], Len(chunk.constants)>>

\* Chunk::add_name: returns <<chunk, index>>, reusing an existing entry
AddName(chunk, name) ==
    IF \E i \in 1..Len(chunk.names) : chunk.names[i] = name
    THEN <<chunk, (CHOOSE i \in 1..Len(chunk.names) :
                      /\ chunk.names[i] = name
                      /\ \A j \in 1..(i-1) : chunk.names[j] # name) - 1>>
    ELSE <<[chunk EXCEPT !.names = Append(@, name)], Len(chunk.names)>>

\* Chunk::patch_jump(offset)
PatchJump(chunk, offset) ==
    LET jump == Len(chunk.code) - offset - 2
    IN [chunk EXCEPT !.code = [@ EXCEPT ![offset + 1] = (jump \div 256) % 256,
                                         ![offset + 2] = jump % 256]]

(***************************************************************************)
(* HashMap<String, V> as a function whose domain is the set of keys        *)
(***************************************************************************)
EmptyMap == <<>>
MapHas(m, k) == k \in DOMAIN m
MapPut(m, k, v) == [x \in (DOMAIN m) \cup {k} |-> IF x = k THEN v ELSE m[x]]

\* Option<T>
None == [some |-> FALSE]
Some(v) == [some |-> TRUE, v |-> v]

\* usize values are kept as integers; a negative integer v stands for the
\* wrapped value 2^64 + v, so that +, - and * agree with wrapping arithmetic
\* and only the comparisons need the unsigned order
UGt(a, b) == IF (a < 0) = (b < 0) THEN a > b ELSE a < 0
UMax(a, b) == IF UGt(b, a) THEN b ELSE a

(***************************************************************************)
(* gc.rs: Object, Heap                                                     *)
(***************************************************************************)
\* an empty slot of Heap::objects (Option::None)
NoObject == [kind |-> "None"]

Open(slot) == [open |-> TRUE, slot |-> slot]
Closed(value) == [open |-> FALSE, value |-> value]

FunctionObj(name, params, chunk, upvalue_count) ==
    [kind |-> "Function", name |-> name, params |-> params, chunk |-> chunk,
     upvalue_count |-> upvalue_count]
\* A Vec<Value> is kept as its explicit elements `items` followed by the
\* numbers lo, lo+1, .., hi-1 (the vectors built by the native range()).
ArrayObj(items, lo, hi) == [kind |-> "Array", items |-> items, lo |-> lo, hi |-> hi]
ClosureObj(function, upvalues) ==
    [kind |-> "Closure", function |-> function, upvalues |-> upvalues]
UpvalueObj(location) == [kind |-> "Upvalue", location |-> location]
ClassObj(name, methods) == [kind |-> "Class", name |-> name, methods |-> methods]
InstanceObj(class, fields) == [kind |-> "Instance", class |-> class, fields |-> fields]
BoundMethodObj(receiver, method) ==
    [kind |-> "BoundMethod", receiver |-> receiver, method |-> method]

\* Vec::len and Vec::get of an array object
ArrayLen(o) == Len(o.items) + (IF o.hi > o.lo THEN o.hi - o.lo ELSE 0)
ArrayGet(o, i) ==
    IF i < Len(o.items) THEN Some(o.items[i + 1])
    ELSE IF i < ArrayLen(o) THEN Some(Number(o.lo + (i - Len(o.items))))
    ELSE None

\* std::mem::size_of of the runtime types on a 64-bit target
SizeOfObject == 72
SizeOfValue == 48
SizeOfFunction == 64
SizeOfClosure == 32
SizeOfUpvalue == 56
SizeOfClass == 72
SizeOfInstance == 64
SizeOfBoundMethod == 56
SizeOfHandle == 8
SizeOfString == 24

\* String::len of the class names and strings used below
StrLen(s) == CASE s \in {"P", "E", "a", "b"} -> 1

RangeOfSeq(s) == {s[i] : i \in 1..Len(s)}

\* Object::children, as a set of handles
SeqChildren(vals) == UNION {RangeOfSeq(ValueChildren(vals[i])) : i \in 1..Len(vals)}
MapChildren(m) == UNION {RangeOfSeq(ValueChildren(m[k])) : k \in DOMAIN m}
\* Object::children that leaves out the upvalues of a closure
ObjectChildrenNoUpvalues(o) ==
    CASE o.kind = "Array" -> SeqChildren(o.items)
      [] o.kind = "Closure" -> {o.function}
      [] o.kind = "Upvalue" ->
            IF o.location.open THEN {} ELSE RangeOfSeq(ValueChildren(o.location.value))
      [] o.kind = "Class" -> {o.methods[k] : k \in DOMAIN o.methods}
      [] o.kind = "Instance" -> {o.class} \cup MapChildren(o.fields)
      [] o.kind = "BoundMethod" ->
            RangeOfSeq(ValueChildren(o.receiver)) \cup {o.method}
      [] OTHER -> {}

ObjectChildren(o) ==
    CASE o.kind = "String" -> {}
      [] o.kind = "Function" -> {}
      [] o.kind = "Array" -> SeqChildren(o.items)
      [] o.kind = "Closure" -> {o.function} \cup RangeOfSeq(o.upvalues)
      [] o.kind = "Upvalue" ->
            IF o.location.open THEN {} ELSE RangeOfSeq(ValueChildren(o.location.value))
      [] o.kind = "Class" -> {o.methods[k] : k \in DOMAIN o.methods}
      [] o.kind = "Instance" -> {o.class} \cup MapChildren(o.fields)
      [] o.kind = "BoundMethod" ->
            RangeOfSeq(ValueChildren(o.receiver)) \cup {o.method}
      [] OTHER -> {}

\* Object::size_bytes
SizeBytes(o) ==
    CASE o.kind = "String" -> SizeOfObject + StrLen(o.s)
      [] o.kind = "Function" -> SizeOfObject + SizeOfFunction
      [] o.kind = "Array" -> SizeOfObject + ArrayLen(o) * SizeOfValue
      [] o.kind = "Closure" ->
            SizeOfObject + SizeOfClosure + Len(o.upvalues) * SizeOfHandle
      [] o.kind = "Upvalue" -> SizeOfObject + SizeOfUpvalue
      [] o.kind = "Class" ->
            SizeOfObject + SizeOfClass + StrLen(o.name)
              + Cardinality(DOMAIN o.methods) * (SizeOfString + SizeOfHandle)
      [] o.kind = "Instance" ->
            SizeOfObject + SizeOfInstance
              + Cardinality(DOMAIN o.fields) * (SizeOfString + SizeOfValue)
      [] o.kind = "BoundMethod" -> SizeOfObject + SizeOfBoundMethod
      [] OTHER -> 0

\* initial collection threshold ("Start at 1MB")
InitialNextGc == 1024 * 1024

\* Heap::new
NewHeap ==
    [objects |-> <<>>, free_list |-> <<>>, marked |-> {}, grey_stack |-> <<>>,
     interned_strings |-> EmptyMap, bytes_allocated |-> 0, next_gc |-> InitialNextGc]

\* objects.get(handle.0): the slot's object, NoObject for an empty or missing slot
HeapGet(heap, h) ==
    IF h >= 0 /\ h < Len(heap.objects) THEN heap.objects[h + 1] ELSE NoObject
\* the typed getters (get_function, get_closure, ...): Some only for that kind
HeapGetKind(heap, h, kind) ==
    LET o == HeapGet(heap, h) IN IF o.kind = kind THEN Some(o) ELSE None

\* an alloc that reuses the last free index and leaves it in the free list
AllocKeepsFree(heap, obj) ==
    IF Len(heap.free_list) > 0
    THEN <<[heap EXCEPT !.bytes_allocated = @ + SizeBytes(obj),
                        !.objects = [@ EXCEPT ![heap.free_list[Len(heap.free_list)] + 1]
                                                 = obj]],
           heap.free_list[Len(heap.free_list)]>>
    ELSE <<[heap EXCEPT !.bytes_allocated = @ + SizeBytes(obj),
                        !.objects = Append(@, obj)], Len(heap.objects)>>

\* Heap::alloc: returns <<heap, handle>>
Alloc(heap, obj) ==
    LET bytes == heap.bytes_allocated + SizeBytes(obj)
    IN IF Len(heap.free_list) > 0
       THEN LET idx == heap.free_list[Len(heap.free_list)]
            IN <<[heap EXCEPT !.bytes_allocated = bytes,
                              !.free_list = SubSeq(@, 1, Len(@) - 1),
                              !.objects = [@ EXCEPT ![idx + 1] = obj]], idx>>
       ELSE <<[heap EXCEPT !.bytes_allocated = bytes,
                           !.objects = Append(@, obj)], Len(heap.objects)>>

\* alloc_string without the lookup in the intern map
AllocStringFresh(heap, s) == Alloc(heap, [kind |-> "String", s |-> s])

\* `self.interned_strings.insert(s, handle); handle`
Interned(a, s) == <<[a[1] EXCEPT !.interned_strings = MapPut(@, s, a[2])], a[2]>>

\* Heap::alloc_string
AllocString(heap, s) ==
    IF MapHas(heap.interned_strings, s) THEN <<heap, heap.interned_strings[s]>>
    ELSE Interned(Alloc(heap, [kind |-> "String", s |-> s]), s)

\* Heap::is_marked
IsMarked(heap, h) == h \in heap.marked

\* Heap::should_collect
ShouldCollect(heap) == UGt(heap.bytes_allocated, heap.next_gc)

\* a mark that records the handle and does not push it on the grey stack
MarkWithoutGrey(heap, h) ==
    IF h \in heap.marked THEN heap
    ELSE IF HeapGet(heap, h).kind # "None"
         THEN [heap EXCEPT !.marked = @ \cup {h}]
         ELSE heap

\* Heap::mark
Mark(heap, h) ==
    IF h \in heap.marked THEN heap
    ELSE IF HeapGet(heap, h).kind # "None"
         THEN [heap EXCEPT !.marked = @ \cup {h}, !.grey_stack = Append(@, h)]
         ELSE heap

\* mark every handle of a set (the `for child in children` loops)
RECURSIVE MarkSet(_, _)
MarkSet(heap, hs) ==
    IF hs = {} THEN heap
    ELSE LET h == CHOOSE x \in hs : \A y \in hs : x <= y
         IN MarkSet(Mark(heap, h), hs \ {h})

\* one pass of the `while let Some(handle) = self.grey_stack.pop()` loop of
\* Heap::trace_references: pop a handle and mark its children
TraceStep(heap) ==
    MarkSet([heap EXCEPT !.grey_stack = SubSeq(@, 1, Len(@) - 1)],
            ObjectChildren(HeapGet(heap, heap.grey_stack[Len(heap.grey_stack)])))

\* Heap::trace_references
RECURSIVE TraceReferences(_)
TraceReferences(heap) ==
    IF Len(heap.grey_stack) = 0 THEN heap
    ELSE TraceReferences(TraceStep(heap))

\* indexes freed by Heap::sweep, in increasing order
RECURSIVE FreedFrom(_, _)
FreedFrom(heap, i) ==
    IF i >= Len(heap.objects) THEN <<>>
    ELSE IF i \notin heap.marked /\ heap.objects[i + 1].kind # "None"
         THEN <<i>> \o FreedFrom(heap, i + 1)
         ELSE FreedFrom(heap, i + 1)

RECURSIVE SumSizes(_, _)
SumSizes(heap, idxs) ==
    IF Len(idxs) = 0 THEN 0
    ELSE SizeBytes(heap.objects[idxs[1] + 1]) + SumSizes(heap, Tail(idxs))

\* `interned_strings.retain(|_, handle| self.marked.contains(&handle.0))`
Retained(interned, marked) ==
    [s \in {x \in DOMAIN interned : interned[x] \in marked} |-> interned[s]]

\* a sweep that keeps every object some allocated object still refers to, as
\* reference counts would
SweepKeepsReferenced(heap) ==
    LET referenced == UNION {ObjectChildren(heap.objects[i]) : i \in 1..Len(heap.objects)}
        freed == FreedFrom([heap EXCEPT !.marked = @ \cup referenced], 0)
        bytes == heap.bytes_allocated - SumSizes(heap, freed)
    IN [heap EXCEPT
          !.objects = [i \in 1..Len(@) |->
                          IF (i - 1) \in RangeOfSeq(freed) THEN NoObject ELSE @[i]],
          !.free_list = @ \o freed,
          !.interned_strings = Retained(@, heap.marked),
          !.bytes_allocated = bytes,
          !.marked = {},
          !.next_gc = UMax(bytes * 2, 1024 * 1024)]

\* a sweep that leaves the threshold next_gc as it was
SweepKeepsThreshold(heap) ==
    LET freed == FreedFrom(heap, 0)
        bytes == heap.bytes_allocated - SumSizes(heap, freed)
    IN [heap EXCEPT
          !.objects = [i \in 1..Len(@) |->
                          IF (i - 1) \in RangeOfSeq(freed) THEN NoObject ELSE @[i]],
          !.free_list = @ \o freed,
          !.interned_strings = Retained(@, heap.marked),
          !.bytes_allocated = bytes,
          !.marked = {}]

\* Heap::sweep
Sweep(heap) ==
    LET freed == FreedFrom(heap, 0)
        freed_bytes == SumSizes(heap, freed)
        bytes == heap.bytes_allocated - freed_bytes
    IN [heap EXCEPT
          !.objects = [i \in 1..Len(@) |->
                          IF (i - 1) \in RangeOfSeq(freed) THEN NoObject ELSE @[i]],
          !.free_list = @ \o freed,
          !.interned_strings = Retained(@, heap.marked),
          !.bytes_allocated = bytes,
          !.marked = {},
          !.next_gc = UMax(bytes * 2, 1024 * 1024)]

\* `self.bytes_allocated -= freed_bytes` underflows (a panic in a build with
\* overflow checks, a wrap-around otherwise)
SweepUnderflows(heap) ==
    UGt(SumSizes(heap, FreedFrom(heap, 0)), heap.bytes_allocated)

(***************************************************************************)
(* causality.rs: CausalityLog                                              *)
(***************************************************************************)
\* CausalityLog::new
NewLog == [events |-> <<>>, by_variable |-> EmptyMap, clock |-> 0, next_id |-> 0]

\* record_mutation without `self.clock += 1`
RecordMutationStaleClock(log, variable, old_value, new_value) ==
    [events |-> Append(log.events,
                       [id |-> log.next_id, variable |-> variable,
                        old_value |-> old_value, new_value |-> new_value,
                        timestamp |-> log.clock]),
     by_variable |-> MapPut(log.by_variable, variable,
                            Append(IF MapHas(log.by_variable, variable)
                                   THEN log.by_variable[variable] ELSE <<>>,
                                   log.next_id)),
     clock |-> log.clock,
     next_id |-> log.next_id + 1]

\* CausalityLog::record_mutation
\* a record_mutation that indexes the event under its timestamp
RecordMutationIndexesTime(log, variable, old_value, new_value) ==
    [events |-> Append(log.events,
                       [id |-> log.next_id, variable |-> variable,
                        old_value |-> old_value, new_value |-> new_value,
                        timestamp |-> log.clock + 1]),
     by_variable |-> MapPut(log.by_variable, variable,
                            Append(IF MapHas(log.by_variable, variable)
                                   THEN log.by_variable[variable] ELSE <<>>,
                                   log.clock + 1)),
     clock |-> log.clock + 1,
     next_id |-> log.next_id + 1]

RecordMutation(log, variable, old_value, new_value) ==
    LET id == log.next_id
        event == [id |-> id, variable |-> variable, old_value |-> old_value,
                  new_value |-> new_value, timestamp |-> log.clock + 1]
        ids == IF MapHas(log.by_variable, variable) THEN log.by_variable[variable]
               ELSE <<>>
    IN [events |-> Append(log.events, event),
        by_variable |-> MapPut(log.by_variable, variable, Append(ids, id)),
        clock |-> log.clock + 1,
        next_id |-> log.next_id + 1]

\* CausalityLog::history
RECURSIVE EventsOf(_, _)
EventsOf(log, ids) ==
    IF Len(ids) = 0 THEN <<>>
    ELSE (IF ids[1] < Len(log.events) THEN <<log.events[ids[1] + 1]>> ELSE <<>>)
            \o EventsOf(log, Tail(ids))
History(log, variable) ==
    IF MapHas(log.by_variable, variable)
    THEN EventsOf(log, log.by_variable[variable]) ELSE <<>>

\* a clock that is never advanced
CurrentTimeOfEpoch(log) == 0

\* CausalityLog::current_time
CurrentTime(log) == log.clock

\* CausalityLog::transition_count
TransitionCount(log, variable) == Len(History(log, variable))

\* the loop of value_at: new value of the last event of the leading run of
\* events with timestamp <= t
\* a scan of value_at that takes only the events before the timestamp
RECURSIVE ValueAtScanBefore(_, _, _)
ValueAtScanBefore(history, timestamp, result) ==
    IF Len(history) = 0 THEN result
    ELSE IF history[1].timestamp < timestamp
         THEN ValueAtScanBefore(Tail(history), timestamp, Some(history[1].new_value))
         ELSE result

RECURSIVE ValueAtScan(_, _, _)
ValueAtScan(history, timestamp, result) ==
    IF Len(history) = 0 THEN result
    ELSE IF history[1].timestamp <= timestamp
         THEN ValueAtScan(Tail(history), timestamp, Some(history[1].new_value))
         ELSE result

\* CausalityLog::value_at
ValueAt(log, variable, timestamp) ==
    LET history == History(log, variable)
    IN IF Len(history) = 0 THEN None
       ELSE LET result == ValueAtScan(history, timestamp, None)
            IN IF ~result.some /\ history[1].timestamp > timestamp
               THEN Some(history[1].old_value)
               ELSE result

\* impl Display for Value (numbers of the model are integral and print
\* without a fraction)
Display(v) ==
    CASE v.t = "Number" -> ToString(v.n)
      [] v.t = "String" -> v.s
      [] v.t = "Bool" -> IF v.b THEN "true" ELSE "false"
      [] v.t = "Nil" -> "nil"
      [] v.t \in {"Function", "Closure"} -> "<fn>"
      [] v.t = "NativeFunction" -> "<native fn " \o v.nat \o ">"
      [] v.t = "Array" -> "<array>"
      [] v.t = "Class" -> "<class>"
      [] v.t = "Instance" -> "<instance>"
      [] v.t = "BoundMethod" -> "<method>"

\* the loop of CausalityLog::why over history[i..], numbered from i
RECURSIVE WhyLines(_, _)
WhyLines(history, i) ==
    IF i > Len(history) THEN ""
    ELSE "  " \o ToString(i) \o ". [t=" \o ToString(history[i].timestamp) \o "] "
            \o Display(history[i].old_value) \o " -> "
            \o Display(history[i].new_value) \o "\n"
            \o WhyLines(history, i + 1)

\* why() over all events of the log, whatever their variable
WhyOfLog(log, variable) ==
    IF Len(log.events) = 0 THEN "No state history for '" \o variable \o "'"
    ELSE "Causality chain for '" \o variable \o "':\n" \o WhyLines(log.events, 1)

\* CausalityLog::why
Why(log, variable) ==
    IF Len(History(log, variable)) = 0
    THEN "No state history for '" \o variable \o "'"
    ELSE "Causality chain for '" \o variable \o "':\n"
            \o WhyLines(History(log, variable), 1)

\* CausalityLog::clear
Clear(log) == [events |-> <<>>, by_variable |-> EmptyMap, clock |-> 0, next_id |-> 0]

(***************************************************************************)
(* ast.rs: programs as the parser delivers them                            *)
(***************************************************************************)
ENumber(value) == [k |-> "Number", value |-> value]
EString(value) == [k |-> "String", value |-> value]
ENil == [k |-> "Nil"]
EBool(value) == [k |-> "Bool", value |-> value]
ELogical(left, op, right) == [k |-> "Logical", left |-> left, op |-> op, right |-> right]
EIdent(name) == [k |-> "Ident", name |-> name]
EBinary(left, op, right) == [k |-> "Binary", left |-> left, op |-> op, right |-> right]
ECall(callee, args) == [k |-> "Call", callee |-> callee, args |-> args]
EGet(object, name) == [k |-> "Get", object |-> object, name |-> name]
ESet(object, name, value) ==
    [k |-> "Set", object |-> object, name |-> name, value |-> value]

SExpr(expr) == [k |-> "Expr", expr |-> expr]
SLet(name, value) == [k |-> "Let", name |-> name, value |-> value]
SState(name, value) == [k |-> "State", name |-> name, value |-> value]
STransition(name, value) == [k |-> "Transition", name |-> name, value |-> value]
SBlock(stmts) == [k |-> "Block", stmts |-> stmts]
SFunction(name, params, body) ==
    [k |-> "Function", name |-> name, params |-> params, body |-> body]
SReturn(value) == [k |-> "Return", value |-> value]
SClass(name, methods) == [k |-> "Class", name |-> name, methods |-> methods]
SFor(var, iterable, body) == [k |-> "For", var |-> var, iterable |-> iterable, body |-> body]
SIf(condition, then_branch, else_branch) ==
    [k |-> "If", condition |-> condition, then_branch |-> then_branch,
     else_branch |-> else_branch]
SWhile(condition, body) == [k |-> "While", condition |-> condition, body |-> body]
SBreak == [k |-> "Break"]
SContinue == [k |-> "Continue"]

(***************************************************************************)
(* error.rs: ErrorKind                                                     *)
(***************************************************************************)
Error(kind, arg) == [kind |-> kind, arg |-> arg]

(***************************************************************************)
(* compiler.rs: Compiler.  A compiler state c is                           *)
(*   [compilers, compiled_chunks, heap, err]                               *)
(* where heap is the VM heap handed to compile() and err is the first      *)
(* error returned (the `?` of the source makes every later step a no-op).  *)
(***************************************************************************)
\* FunctionCompiler::new: slot 0 is reserved for the closure itself
NewFunctionCompiler(name) ==
    [function_name |-> name, chunk |-> NewChunk,
     locals |-> <<[name |-> "", depth |-> 0, is_state |-> FALSE]>>,
     upvalues |-> <<>>, scope_depth |-> 0,
     loop_starts |-> <<>>, loop_exits |-> <<>>]

\* Compiler::new, compiling into `heap`
NewCompiler(heap) ==
    [compilers |-> <<NewFunctionCompiler("")>>, compiled_chunks |-> <<>>,
     heap |-> heap, err |-> None]

\* Compiler::current
Current(c) == c.compilers[Len(c.compilers)]
SetCurrent(c, fc) ==
    IF c.err.some THEN c ELSE [c EXCEPT !.compilers[Len(c.compilers)] = fc]
Fail(c, e) == IF c.err.some THEN c ELSE [c EXCEPT !.err = Some(e)]

\* Compiler::emit, emit_byte, emit_u16
Emit(c, op) == SetCurrent(c, [Current(c) EXCEPT !.chunk = WriteByte(@, OpByte(op))])
EmitByte(c, byte) == SetCurrent(c, [Current(c) EXCEPT !.chunk = WriteByte(@, byte)])
EmitU16(c, value) == SetCurrent(c, [Current(c) EXCEPT !.chunk = WriteU16(@, value)])
\* emit an opcode followed by a u16 operand
EmitOpU16(c, op, value) == EmitU16(Emit(c, op), value)

\* chunk.add_name on the current chunk: <<c, index>>
AddNameC(c, name) ==
    LET r == AddName(Current(c).chunk, name)
    IN <<SetCurrent(c, [Current(c) EXCEPT !.chunk = r[1]]), r[2]>>
\* chunk.add_constant on the current chunk: <<c, index>>
AddConstantC(c, value) ==
    LET r == AddConstant(Current(c).chunk, value)
    IN <<SetCurrent(c, [Current(c) EXCEPT !.chunk = r[1]]), r[2]>>

\* `emit(op); emit_u16(idx)` for the <<c, idx>> of add_name / add_constant
EmitIndexed(r, op) == EmitOpU16(r[1], op, r[2])

\* add_name followed by `emit(op); emit_u16(idx)`
EmitNamed(c, op, name) == EmitIndexed(AddNameC(c, name), op)

\* Compiler::emit_constant
EmitConstant(c, value) == EmitIndexed(AddConstantC(c, value), "Constant")

\* Compiler::emit_jump: <<c, offset of the placeholder>>
EmitJump(c, op) ==
    LET c1 == EmitU16(Emit(c, op), 65535)
    IN <<c1, Len(Current(c1).chunk.code) - 2>>

\* Compiler::patch_jump
PatchJumpC(c, offset) ==
    SetCurrent(c, [Current(c) EXCEPT !.chunk = PatchJump(@, offset)])

\* Compiler::emit_loop
\* an emit_loop that leaves the operand's two bytes out of the offset
EmitLoopShort(c, loop_start) ==
    EmitU16(Emit(c, "Loop"), Len(Current(Emit(c, "Loop")).chunk.code) - loop_start)

EmitLoop(c, loop_start) ==
    LET c1 == Emit(c, "Loop")
        offset == Len(Current(c1).chunk.code) - loop_start + 2
    IN EmitU16(c1, offset)

\* Compiler::begin_scope
BeginScope(c) == SetCurrent(c, [Current(c) EXCEPT !.scope_depth = @ + 1])

\* the loop of end_scope: one Pop per local declared deeper than scope_depth
RECURSIVE PopLocals(_)
PopLocals(c) ==
    LET fc == Current(c)
    IN IF c.err.some THEN c
       ELSE IF Len(fc.locals) > 0 /\ fc.locals[Len(fc.locals)].depth > fc.scope_depth
       THEN LET c1 == Emit(c, "Pop")
            IN PopLocals(SetCurrent(c1, [Current(c1) EXCEPT
                                            !.locals = SubSeq(@, 1, Len(@) - 1)]))
       ELSE c

\* Compiler::end_scope
EndScope(c) == PopLocals(SetCurrent(c, [Current(c) EXCEPT !.scope_depth = @ - 1]))

\* Compiler::add_local
AddLocal(c, name, is_state) ==
    LET fc == Current(c)
    IN SetCurrent(c, [fc EXCEPT !.locals = Append(@,
            [name |-> name, depth |-> fc.scope_depth, is_state |-> is_state])])

\* newest local called `name` in a local list, as Option<index>
FindLocal(locals, name) ==
    IF \E i \in 1..Len(locals) : locals[i].name = name
    THEN Some((CHOOSE i \in 1..Len(locals) :
                  /\ locals[i].name = name
                  /\ \A j \in (i+1)..Len(locals) : locals[j].name # name) - 1)
    ELSE None

\* Compiler::resolve_local
ResolveLocal(c, name) == FindLocal(Current(c).locals, name)

\* Compiler::add_upvalue(compiler_idx, index, is_local): <<c, index in the list>>
AddUpvalue(c, compiler_idx, index, is_local) ==
    LET ups == c.compilers[compiler_idx + 1].upvalues
    IN IF \E i \in 1..Len(ups) : ups[i].index = index /\ ups[i].is_local = is_local
       THEN <<c, (CHOOSE i \in 1..Len(ups) :
                     /\ ups[i].index = index /\ ups[i].is_local = is_local
                     /\ \A j \in 1..(i-1) :
                           ~(ups[j].index = index /\ ups[j].is_local = is_local)) - 1>>
       ELSE <<[c EXCEPT !.compilers[compiler_idx + 1].upvalues =
                           Append(@, [index |-> index, is_local |-> is_local])],
              Len(ups)>>

\* Compiler::resolve_upvalue(compiler_idx, name): <<c, Option<index>>>
\* (`index as u8` truncates the slot to 8 bits)
RECURSIVE ResolveUpvalue(_, _, _)
ResolveUpvalue(c, compiler_idx, name) ==
    IF compiler_idx = 0 THEN <<c, None>>
    ELSE LET parent_idx == compiler_idx - 1
             parent_local == FindLocal(c.compilers[parent_idx + 1].locals, name)
         IN IF parent_local.some
            THEN LET r == AddUpvalue(c, compiler_idx, parent_local.v % 256, TRUE)
                 IN <<r[1], Some(r[2])>>
            ELSE LET up == ResolveUpvalue(c, parent_idx, name)
                 IN IF up[2].some
                    THEN LET r == AddUpvalue(up[1], compiler_idx, up[2].v % 256, FALSE)
                         IN <<r[1], Some(r[2])>>
                    ELSE <<up[1], None>>

\* the (is_local, index) descriptor bytes emitted after Closure
RECURSIVE EmitUpvalues(_, _)
EmitUpvalues(c, upvalues) ==
    IF Len(upvalues) = 0 THEN c
    ELSE EmitUpvalues(
            EmitByte(EmitByte(c, IF upvalues[1].is_local THEN 1 ELSE 0),
                     upvalues[1].index),
            Tail(upvalues))

\* pop the finished FunctionCompiler, allocate its Function on the heap, add it
\* to the enclosing chunk's constants and emit Closure with its descriptors
FinishFunction(c, name, params) ==
    IF c.err.some THEN c
    ELSE LET func_compiler == Current(c)
             popped == [c EXCEPT !.compilers = SubSeq(@, 1, Len(@) - 1)]
             a == Alloc(popped.heap,
                        FunctionObj(name, params, func_compiler.chunk,
                                    Len(func_compiler.upvalues)))
             c1 == [popped EXCEPT !.heap = a[1]]
             r == AddConstantC(c1, FunctionV(a[2]))
         IN EmitUpvalues(EmitOpU16(r[1], "Closure", r[2]), func_compiler.upvalues)

\* `for param in params { add_local(param, false) }`
RECURSIVE AddParams(_, _)
AddParams(c, params) ==
    IF Len(params) = 0 THEN c
    ELSE AddParams(AddLocal(c, params[1], FALSE), Tail(params))

BinaryOpCode(op) ==
    CASE op = "Add" -> "Add" [] op = "Sub" -> "Subtract" [] op = "Mul" -> "Multiply"
      [] op = "Div" -> "Divide" [] op = "Mod" -> "Modulo" [] op = "Eq" -> "Equal"
      [] op = "Ne" -> "NotEqual" [] op = "Lt" -> "Less" [] op = "Le" -> "LessEqual"
      [] op = "Gt" -> "Greater" [] op = "Ge" -> "GreaterEqual"

RECURSIVE CompileExpr(_, _)
RECURSIVE CompileExprs(_, _)
RECURSIVE CompileStmt(_, _)
RECURSIVE CompileStmts(_, _)

\* `for arg in args { compile_expr(arg)? }`
CompileExprs(c, exprs) ==
    IF Len(exprs) = 0 \/ c.err.some THEN c
    ELSE CompileExprs(CompileExpr(c, exprs[1]), Tail(exprs))

\* the regular call path of Expr::Call
CompileCall(c, expr) ==
    EmitByte(Emit(CompileExprs(CompileExpr(c, expr.callee), expr.args), "Call"),
             Len(expr.args))

\* Expr::Ident that is no local: an upvalue when resolve_upvalue finds one,
\* a global otherwise
EmitIdent(up, name) ==
    IF up[2].some THEN EmitOpU16(up[1], "GetUpvalue", up[2].v)
    ELSE EmitNamed(up[1], "GetGlobal", name)

\* Expr::Logical after the left operand: jump, Pop, right operand, patch
LogicalRight(j, right) == PatchJumpC(CompileExpr(Emit(j[1], "Pop"), right), j[2])

\* a FunctionCompiler that takes over the loops of the enclosing function
PushFunctionInLoop(c, name) ==
    BeginScope([c EXCEPT !.compilers =
                   Append(@, [NewFunctionCompiler(name) EXCEPT
                                 !.loop_starts = Current(c).loop_starts,
                                 !.loop_exits = Current(c).loop_exits])])

\* push a FunctionCompiler for a function called `name` and begin its scope
PushFunction(c, name) ==
    BeginScope([c EXCEPT !.compilers = Append(@, NewFunctionCompiler(name))])

\* Compiler::compile_expr
CompileExpr(c, expr) ==
    IF c.err.some THEN c
    ELSE CASE expr.k = "Number" -> EmitConstant(c, Number(expr.value))
           [] expr.k = "String" -> EmitConstant(c, String(expr.value))
           [] expr.k = "Bool" -> Emit(c, IF expr.value THEN "True" ELSE "False")
           [] expr.k = "Nil" -> Emit(c, "Nil")
           [] expr.k = "Ident" ->
                IF ResolveLocal(c, expr.name).some
                THEN EmitOpU16(c, "GetLocal", ResolveLocal(c, expr.name).v)
                ELSE EmitIdent(ResolveUpvalue(c, Len(c.compilers) - 1, expr.name),
                               expr.name)
           [] expr.k = "Binary" ->
                Emit(CompileExpr(CompileExpr(c, expr.left), expr.right),
                     BinaryOpCode(expr.op))
           [] expr.k = "Unary" ->
                Emit(CompileExpr(c, expr.operand),
                     IF expr.op = "Neg" THEN "Negate" ELSE "Not")
           [] expr.k = "Logical" ->
                LogicalRight(EmitJump(CompileExpr(c, expr.left),
                                      IF expr.op = "And" THEN "JumpIfFalse"
                                      ELSE "JumpIfTrue"),
                             expr.right)
           [] expr.k = "Grouping" -> CompileExpr(c, expr.expr)
           [] expr.k = "Call" ->
                IF expr.callee.k = "Ident" /\ expr.callee.name = "print"
                THEN EmitByte(Emit(CompileExprs(c, expr.args), "Print"), Len(expr.args))
                ELSE IF expr.callee.k = "Ident" /\ expr.callee.name = "why"
                THEN IF Len(expr.args) # 1
                     THEN Fail(c, Error("WrongArity", <<1, Len(expr.args)>>))
                     ELSE IF expr.args[1].k = "Ident"
                          THEN EmitNamed(c, "Why", expr.args[1].name)
                          ELSE CompileCall(c, expr)
                ELSE IF expr.callee.k = "Ident" /\ expr.callee.name = "time"
                THEN Emit(c, "Time")
                ELSE CompileCall(c, expr)
           [] expr.k = "Lambda" ->
                FinishFunction(
                    Emit(CompileExpr(AddParams(PushFunction(c, "<lambda>"), expr.params),
                                     expr.body),
                         "Return"),
                    "<lambda>", expr.params)
           [] expr.k = "Get" ->
                EmitNamed(CompileExpr(c, expr.object), "GetProperty", expr.name)
           [] expr.k = "Set" ->
                EmitNamed(CompileExpr(CompileExpr(c, expr.object), expr.value),
                          "SetProperty", expr.name)

\* `for stmt in body { compile_stmt(stmt)? }`
CompileStmts(c, stmts) ==
    IF Len(stmts) = 0 \/ c.err.some THEN c
    ELSE IF Len(stmts) = 1 THEN CompileStmt(c, stmts[1])
    ELSE CompileStmts(CompileStmts(c, SubSeq(stmts, 1, Len(stmts) \div 2)),
                      SubSeq(stmts, Len(stmts) \div 2 + 1, Len(stmts)))

\* Stmt::Let and Stmt::State after the value: a global at scope depth 0, a
\* local otherwise
DeclareVariable(c, name, is_state) ==
    IF Current(c).scope_depth = 0
    THEN EmitNamed(c, IF is_state THEN "DefineState" ELSE "DefineGlobal", name)
    ELSE AddLocal(c, name, is_state)

\* Stmt::Let and Stmt::State
CompileDecl(c, stmt, is_state) ==
    DeclareVariable(CompileExpr(c, stmt.value), stmt.name, is_state)

\* `emit(op); emit_u16(slot); emit_u16(name_idx)`
EmitSlotNamed(r, op, slot) == EmitU16(EmitOpU16(r[1], op, slot), r[2])

\* Stmt::Transition on a name that is no local: upvalue (no is_state check)
\* or global
TransitionNonLocal(up, name) ==
    IF up[2].some
    THEN EmitSlotNamed(AddNameC(up[1], name), "TransitionUpvalue", up[2].v)
    ELSE EmitNamed(up[1], "Transition", name)

\* a transition that emits TransitionLocal for any local
EmitTransitionAnyLocal(c, name) ==
    IF c.err.some THEN c
    ELSE IF ResolveLocal(c, name).some
    THEN EmitSlotNamed(AddNameC(c, name), "TransitionLocal", ResolveLocal(c, name).v)
    ELSE TransitionNonLocal(ResolveUpvalue(c, Len(c.compilers) - 1, name), name)

\* Stmt::Transition after the new value
EmitTransition(c, name) ==
    IF c.err.some THEN c
    ELSE IF ResolveLocal(c, name).some
    THEN IF ~Current(c).locals[ResolveLocal(c, name).v + 1].is_state
         THEN Fail(c, Error("ImmutableVariable", name))
         ELSE EmitSlotNamed(AddNameC(c, name), "TransitionLocal",
                            ResolveLocal(c, name).v)
    ELSE TransitionNonLocal(ResolveUpvalue(c, Len(c.compilers) - 1, name), name)

\* Stmt::Transition
CompileTransition(c, stmt) == EmitTransition(CompileExpr(c, stmt.value), stmt.name)

\* Stmt::If, the then branch: [else_jump, then_jump]
IfThen(then_jump, then_branch) ==
    [else_jump |-> EmitJump(CompileStmt(Emit(then_jump[1], "Pop"), then_branch),
                            "Jump"),
     then_jump |-> then_jump[2]]

\* `if let Some(else_stmt) = else_branch { compile_stmt(else_stmt)? }`
ElseBranch(c, else_branch) ==
    IF else_branch.some THEN CompileStmt(c, else_branch.v) ELSE c

\* Stmt::If, from patch_jump(then_jump) on
IfElse(j, else_branch) ==
    PatchJumpC(ElseBranch(Emit(PatchJumpC(j.else_jump[1], j.then_jump), "Pop"),
                          else_branch),
               j.else_jump[2])

\* Stmt::If
CompileIf(c, stmt) ==
    IfElse(IfThen(EmitJump(CompileExpr(c, stmt.condition), "JumpIfFalse"),
                  stmt.then_branch),
           stmt.else_branch)

\* `self.current().chunk.len()`
ChunkLen(c) == Len(Current(c).chunk.code)

\* push a loop onto loop_starts / loop_exits
PushLoop(c, loop_start) ==
    SetCurrent(c, [Current(c) EXCEPT !.loop_starts = Append(@, loop_start),
                                     !.loop_exits = Append(@, <<>>)])

\* `for exit in exits { patch_jump(exit) }`
RECURSIVE PatchAll(_, _)
PatchAll(c, exits) ==
    IF Len(exits) = 0 THEN c ELSE PatchAll(PatchJumpC(c, exits[1]), Tail(exits))

\* `self.current().loop_starts.pop()`
PopLoopStart(c) ==
    SetCurrent(c, [Current(c) EXCEPT !.loop_starts = SubSeq(@, 1, Len(@) - 1)])

\* patch the breaks of the innermost loop and pop it
PopLoop(c) ==
    IF c.err.some THEN c
    ELSE PopLoopStart(
            PatchAll(SetCurrent(c, [Current(c) EXCEPT
                                       !.loop_exits = SubSeq(@, 1, Len(@) - 1)]),
                     Current(c).loop_exits[Len(Current(c).loop_exits)]))

\* Stmt::While and Stmt::For from the exit jump on: Pop, body, loop back,
\* exit, breaks
LoopBody(c, exit_jump, loop_start) ==
    PopLoop(Emit(PatchJumpC(EmitLoop(c, loop_start), exit_jump), "Pop"))

\* Stmt::While after the condition
WhileBody(exit_jump, body, loop_start) ==
    LoopBody(CompileStmt(Emit(exit_jump[1], "Pop"), body), exit_jump[2], loop_start)

\* Stmt::While
CompileWhile(c, stmt) ==
    WhileBody(EmitJump(CompileExpr(PushLoop(c, ChunkLen(c)), stmt.condition),
                       "JumpIfFalse"),
              stmt.body, ChunkLen(c))

\* `if let Some(slot) = resolve_local(name) { emit(op); emit_u16(slot) }`
EmitLocalOp(c, op, name) ==
    IF ResolveLocal(c, name).some THEN EmitOpU16(c, op, ResolveLocal(c, name).v)
    ELSE c

\* `if let Some(slot) = resolve_local(name) { SetLocal slot; Pop }`
StoreLocal(c, name) ==
    IF ResolveLocal(c, name).some
    THEN Emit(EmitOpU16(c, "SetLocal", ResolveLocal(c, name).v), "Pop")
    ELSE c

\* Stmt::For, steps 1-3: the locals __iter__, __idx__ and the loop variable
ForLocals(c, stmt) ==
    AddLocal(
        Emit(AddLocal(EmitConstant(AddLocal(CompileExpr(BeginScope(c), stmt.iterable),
                                            "__iter__", FALSE),
                                   Number(0)),
                      "__idx__", TRUE),
             "Nil"),
        stmt.var, FALSE)

\* Stmt::For, the condition len(__iter__) > __idx__ and the exit jump
ForCondition(c) ==
    EmitJump(
        Emit(EmitLocalOp(
                 EmitByte(Emit(EmitLocalOp(EmitNamed(c, "GetGlobal", "len"),
                                           "GetLocal", "__iter__"),
                               "Call"),
                          1),
                 "GetLocal", "__idx__"),
             "Greater"),
        "JumpIfFalse")

\* Stmt::For, the body prologue var = __iter__[__idx__]
ForPrologue(c, var) ==
    StoreLocal(Emit(EmitLocalOp(EmitLocalOp(Emit(c, "Pop"), "GetLocal", "__iter__"),
                                "GetLocal", "__idx__"),
                    "Index"),
               var)

\* Stmt::For, the increment __idx__ = __idx__ + 1
ForIncrement(c) ==
    IF c.err.some THEN c
    ELSE StoreLocal(Emit(EmitConstant(EmitLocalOp(c, "GetLocal", "__idx__"),
                                      Number(1)),
                         "Add"),
                    "__idx__")

\* Stmt::For after the increment: loop back, exit, breaks, end_scope
ForEnd(c, exit_jump, loop_start) ==
    IF c.err.some THEN c ELSE EndScope(LoopBody(c, exit_jump, loop_start))

\* Stmt::For after the condition
ForBody(exit_jump, stmt, loop_start) ==
    IF exit_jump[1].err.some THEN exit_jump[1]
    ELSE ForEnd(ForIncrement(CompileStmt(ForPrologue(exit_jump[1], stmt.var),
                                         stmt.body)),
                exit_jump[2], loop_start)

\* Stmt::For from loop_start on
ForLoop(c, stmt) ==
    IF c.err.some THEN c
    ELSE ForBody(ForCondition(PushLoop(c, ChunkLen(c))), stmt, ChunkLen(c))

\* Stmt::For
CompileFor(c, stmt) == ForLoop(ForLocals(c, stmt), stmt)

\* name of a function or class: a global name index at depth 0, a local otherwise
DeclareName(c, name) ==
    IF Current(c).scope_depth = 0
    THEN <<AddNameC(c, name)[1], Some(AddNameC(c, name)[2])>>
    ELSE <<AddLocal(c, name, FALSE), None>>

\* `if let Some(idx) = global_idx { emit(DefineGlobal); emit_u16(idx) }`
DefineIfGlobal(c, global_idx) ==
    IF global_idx.some THEN EmitOpU16(c, "DefineGlobal", global_idx.v) ELSE c

\* Stmt::Function after the name is declared
FunctionBody(d, stmt) ==
    DefineIfGlobal(
        FinishFunction(
            Emit(Emit(CompileStmts(AddParams(PushFunction(d[1], stmt.name), stmt.params),
                                   stmt.body),
                      "Nil"),
                 "Return"),
            stmt.name, stmt.params),
        d[2])

\* Stmt::Function
CompileFunction(c, stmt) == FunctionBody(DeclareName(c, stmt.name), stmt)

\* bind `this` to slot 0
BindThis(c) == SetCurrent(c, [Current(c) EXCEPT !.locals[1].name = "this"])

\* the return a method ends with: init returns `this`
MethodReturn(c, name) ==
    IF name = "init" THEN Emit(EmitOpU16(c, "GetLocal", 0), "Return")
    ELSE Emit(Emit(c, "Nil"), "Return")

\* one method of Stmt::Class: closure compiled inline, then Method
CompileMethod(c, method) ==
    EmitNamed(
        FinishFunction(
            MethodReturn(CompileStmts(AddParams(BindThis(PushFunction(c, method.name)),
                                                method.params),
                                      method.body),
                         method.name),
            method.name, method.params),
        "Method", method.name)

RECURSIVE CompileMethods(_, _)
CompileMethods(c, methods) ==
    IF Len(methods) = 0 \/ c.err.some THEN c
    ELSE CompileMethods(CompileMethod(c, methods[1]), Tail(methods))

\* Stmt::Class, steps 3 and 4: define the variable and load the class back
LoadClass(c, global_idx, name) ==
    IF global_idx.some
    THEN EmitOpU16(EmitOpU16(c, "DefineGlobal", global_idx.v), "GetGlobal",
                   global_idx.v)
    ELSE EmitOpU16(c, "GetLocal", ResolveLocal(c, name).v)

\* Stmt::Class after the name is declared
ClassBody(d, stmt) ==
    Emit(CompileMethods(LoadClass(EmitNamed(d[1], "Class", stmt.name), d[2],
                                  stmt.name),
                        stmt.methods),
         "Pop")

\* Stmt::Class
CompileClass(c, stmt) == ClassBody(DeclareName(c, stmt.name), stmt)

\* `self.current().loop_exits.last_mut().unwrap().push(exit)`
PushExit(j) ==
    SetCurrent(j[1], [Current(j[1]) EXCEPT
                         !.loop_exits[Len(Current(j[1]).loop_exits)] = Append(@, j[2])])

\* Stmt::Break
CompileBreak(c) ==
    IF Len(Current(c).loop_exits) = 0 THEN Fail(c, Error("BreakOutsideLoop", <<>>))
    ELSE PushExit(EmitJump(c, "Jump"))

\* Stmt::Continue
CompileContinue(c) ==
    IF Len(Current(c).loop_starts) = 0 THEN Fail(c, Error("ContinueOutsideLoop", <<>>))
    ELSE EmitLoop(c, Current(c).loop_starts[Len(Current(c).loop_starts)])

\* Compiler::compile_stmt
CompileStmt(c, stmt) ==
    IF c.err.some THEN c
    ELSE CASE stmt.k = "Expr" -> Emit(CompileExpr(c, stmt.expr), "Pop")
           [] stmt.k = "Let" -> CompileDecl(c, stmt, FALSE)
           [] stmt.k = "State" -> CompileDecl(c, stmt, TRUE)
           [] stmt.k = "Transition" -> CompileTransition(c, stmt)
           [] stmt.k = "Block" -> EndScope(CompileStmts(BeginScope(c), stmt.stmts))
           [] stmt.k = "If" -> CompileIf(c, stmt)
           [] stmt.k = "While" -> CompileWhile(c, stmt)
           [] stmt.k = "For" -> CompileFor(c, stmt)
           [] stmt.k = "Class" -> CompileClass(c, stmt)
           [] stmt.k = "Function" -> CompileFunction(c, stmt)
           [] stmt.k = "Return" ->
                Emit(IF stmt.value.some THEN CompileExpr(c, stmt.value.v)
                     ELSE Emit(c, "Nil"), "Return")
           [] stmt.k = "Break" -> CompileBreak(c)
           [] stmt.k = "Continue" -> CompileContinue(c)

\* one statement of Compiler::compile: the last statement, when it is an
\* expression, leaves its value; any other last statement is followed by Nil
CompileTop(c, stmt, is_last) ==
    IF is_last /\ stmt.k = "Expr" THEN CompileExpr(c, stmt.expr)
    ELSE IF is_last THEN Emit(CompileStmt(c, stmt), "Nil")
    ELSE CompileStmt(c, stmt)

\* the statement loop of Compiler::compile
RECURSIVE CompileProgram(_, _)
CompileProgram(c, stmts) ==
    IF Len(stmts) = 0 \/ c.err.some THEN c
    ELSE CompileProgram(CompileTop(c, stmts[1], Len(stmts) = 1), Tail(stmts))

\* `if program.statements.is_empty() { emit(Nil) }`
NilIfEmpty(c, program) == IF Len(program) = 0 THEN Emit(c, "Nil") ELSE c

\* what Compiler::compile returns, with the heap it allocated into
Compiled(c) ==
    [err |-> c.err, chunk |-> Current(c).chunk, chunks |-> c.compiled_chunks,
     heap |-> c.heap]

\* Compiler::compile(program, heap): [err, chunk, chunks, heap]
Compile(program, heap) ==
    Compiled(Emit(NilIfEmpty(CompileProgram(NewCompiler(heap), program), program),
                  "Return"))

(***************************************************************************)
(* Source programs the host runs                                           *)
(***************************************************************************)
Plus(a, b) == EBinary(a, "Add", b)
Gt(a, b) == EBinary(a, "Gt", b)
Call0(name) == ECall(EIdent(name), <<>>)
Call1(name, arg) == ECall(EIdent(name), <<arg>>)

\* state counter = 0; counter -> counter + 1; counter -> counter + 1; counter
ProgCounter ==
    <<SState("counter", ENumber(0)),
      STransition("counter", Plus(EIdent("counter"), ENumber(1))),
      STransition("counter", Plus(EIdent("counter"), ENumber(1))),
      SExpr(EIdent("counter"))>>

\* let x = 1; x -> 2
ProgImmutable == <<SLet("x", ENumber(1)), STransition("x", ENumber(2))>>

\* y -> 1
ProgUndefined == <<STransition("y", ENumber(1))>>

\* state x = 5; x -> 6
ProgRedefine == <<SState("x", ENumber(5)), STransition("x", ENumber(6))>>

\* fn f() { state n = 0; n -> n + 1; return n }  f(); f()
ProgLocal ==
    <<SFunction("f", <<>>,
                <<SState("n", ENumber(0)),
                  STransition("n", Plus(EIdent("n"), ENumber(1))),
                  SReturn(Some(EIdent("n")))>>),
      SExpr(Call0("f")),
      SExpr(Call0("f"))>>

\* fn make() { state i = 0; fn inc() { i -> i + 1; return i } inc(); return inc }
\* let a = make(); a()
ProgMakeCounter ==
    <<SFunction("make", <<>>,
                <<SState("i", ENumber(0)),
                  SFunction("inc", <<>>,
                            <<STransition("i", Plus(EIdent("i"), ENumber(1))),
                              SReturn(Some(EIdent("i")))>>),
                  SExpr(Call0("inc")),
                  SReturn(Some(EIdent("inc")))>>),
      SLet("a", Call0("make")),
      SExpr(Call0("a"))>>

\* fn outer() { let k = 1; fn inner() { k -> 2; return k } return inner() }
\* outer()
ProgUpImm ==
    <<SFunction("outer", <<>>,
                <<SLet("k", ENumber(1)),
                  SFunction("inner", <<>>,
                            <<STransition("k", ENumber(2)),
                              SReturn(Some(EIdent("k")))>>),
                  SReturn(Some(Call0("inner")))>>),
      SExpr(Call0("outer"))>>

\* state kept = nil
\* fn share(n) { state v = 0; fn inc() { v -> v + 1 } range(n);
\*               fn get() { return v } kept -> inc; return get }
\* let g = share(0); let h = share(30000); kept(); h()
ProgSharedGC ==
    <<SState("kept", ENil),
      SFunction("share", <<"n">>,
                <<SState("v", ENumber(0)),
                  SFunction("inc", <<>>,
                            <<STransition("v", Plus(EIdent("v"), ENumber(1)))>>),
                  SExpr(Call1("range", EIdent("n"))),
                  SFunction("get", <<>>, <<SReturn(Some(EIdent("v")))>>),
                  STransition("kept", EIdent("inc")),
                  SReturn(Some(EIdent("get")))>>),
      SLet("g", Call1("share", ENumber(0))),
      SLet("h", Call1("share", ENumber(30000))),
      SExpr(Call0("kept")),
      SExpr(Call0("h"))>>

\* fn keep() { state held = nil; { let a = 1; fn peek() { return a } held -> peek }
\*             return held }
\* keep()
ProgBlockCapture ==
    <<SFunction("keep", <<>>,
                <<SState("held", ENil),
                  SBlock(<<SLet("a", ENumber(1)),
                           SFunction("peek", <<>>, <<SReturn(Some(EIdent("a")))>>),
                           STransition("held", EIdent("peek"))>>),
                  SReturn(Some(EIdent("held")))>>),
      SExpr(Call0("keep"))>>

\* range(30000); fn one() { return 1 } one()
ProgProtoSwept ==
    <<SExpr(Call1("range", ENumber(30000))),
      SFunction("one", <<>>, <<SReturn(Some(ENumber(1)))>>),
      SExpr(Call0("one"))>>

\* class P { init(v) { this.v = v } get() { return this.v } }
\* let p = P(1); let m = p.get; range(30000); m()
ProgClass ==
    <<SClass("P",
             <<SFunction("init", <<"v">>,
                         <<SExpr(ESet(EIdent("this"), "v", EIdent("v")))>>),
               SFunction("get", <<>>,
                         <<SReturn(Some(EGet(EIdent("this"), "v")))>>)>>),
      SLet("p", Call1("P", ENumber(1))),
      SLet("m", EGet(EIdent("p"), "get")),
      SExpr(Call1("range", ENumber(30000))),
      SExpr(Call0("m"))>>

\* state c = 0; c -> c + 1; c -> time(); time()
ProgTime ==
    <<SState("c", ENumber(0)),
      STransition("c", Plus(EIdent("c"), ENumber(1))),
      STransition("c", Call0("time")),
      SExpr(Call0("time"))>>

\* fn r() { r() }  r()
ProgRecurse ==
    <<SFunction("r", <<>>, <<SExpr(Call0("r"))>>),
      SExpr(Call0("r"))>>

\* fn one() { return 1 }  one(2)
ProgArityClosure ==
    <<SFunction("one", <<>>, <<SReturn(Some(ENumber(1)))>>),
      SExpr(Call1("one", ENumber(2)))>>

\* len()
ProgArityNative == <<SExpr(Call0("len"))>>

\* class E { }  E(1)
ProgArityClass ==
    <<SClass("E", <<>>),
      SExpr(Call1("E", ENumber(1)))>>

\* class P { init(v) { this.v = v } }  P(1); range(30000)
ProgFieldSwept ==
    <<SClass("P",
             <<SFunction("init", <<"v">>,
                         <<SExpr(ESet(EIdent("this"), "v", EIdent("v")))>>)>>),
      SExpr(Call1("P", ENumber(1))),
      SExpr(Call1("range", ENumber(30000)))>>

\* class P { init(v) { return v } }  P(5)
ProgInitReturn ==
    <<SClass("P", <<SFunction("init", <<"v">>, <<SReturn(Some(EIdent("v")))>>)>>),
      SExpr(Call1("P", ENumber(5)))>>

\* class E { }  E()
ProgNoInit ==
    <<SClass("E", <<>>),
      SExpr(Call0("E"))>>

\* fn noop() { return 0 }
\* state kept = noop
\* fn make(n) { state i = 0; fn inc() { i -> i + 1; return i }
\*              range(n); kept(); kept -> inc; return inc }
\* let a = make(30000); let b = make(0); b()
ProgAlias ==
    <<SFunction("noop", <<>>, <<SReturn(Some(ENumber(0)))>>),
      SState("kept", EIdent("noop")),
      SFunction("make", <<"n">>,
                <<SState("i", ENumber(0)),
                  SFunction("inc", <<>>,
                            <<STransition("i", Plus(EIdent("i"), ENumber(1))),
                              SReturn(Some(EIdent("i")))>>),
                  SExpr(Call1("range", EIdent("n"))),
                  SExpr(Call0("kept")),
                  STransition("kept", EIdent("inc")),
                  SReturn(Some(EIdent("inc")))>>),
      SLet("a", Call1("make", ENumber(30000))),
      SLet("b", Call1("make", ENumber(0))),
      SExpr(Call0("b"))>>

\* class P { init(v) { this.v = v } set(x) { this.v = x } get() { return this.v } }
\* let p = P(1); let q = P(2); p.set(5); q.get()
ProgTwoInstances ==
    <<SClass("P",
             <<SFunction("init", <<"v">>,
                         <<SExpr(ESet(EIdent("this"), "v", EIdent("v")))>>),
               SFunction("set", <<"x">>,
                         <<SExpr(ESet(EIdent("this"), "v", EIdent("x")))>>),
               SFunction("get", <<>>,
                         <<SReturn(Some(EGet(EIdent("this"), "v")))>>)>>),
      SLet("p", Call1("P", ENumber(1))),
      SLet("q", Call1("P", ENumber(2))),
      SExpr(ECall(EGet(EIdent("p"), "set"), <<ENumber(5)>>)),
      SExpr(ECall(EGet(EIdent("q"), "get"), <<>>))>>

\* class P { m() { return 1 } }
\* fn f() { let p = P(); p.me = p.m }
\* f(); range(30000)
ProgCycle ==
    <<SClass("P", <<SFunction("m", <<>>, <<SReturn(Some(ENumber(1)))>>)>>),
      SFunction("f", <<>>,
                <<SLet("p", Call0("P")),
                  SExpr(ESet(EIdent("p"), "me", EGet(EIdent("p"), "m")))>>),
      SExpr(Call0("f")),
      SExpr(Call1("range", ENumber(30000)))>>

\* state x = 0; state y = 1; x -> 10; y -> 2; x -> 20; why(z); why(x)
ProgWhy ==
    <<SState("x", ENumber(0)),
      SState("y", ENumber(1)),
      STransition("x", ENumber(10)),
      STransition("y", ENumber(2)),
      STransition("x", ENumber(20)),
      SExpr(Call1("why", EIdent("z"))),
      SExpr(Call1("why", EIdent("x")))>>

\* break
ProgBreakTop == <<SBreak>>

\* continue
ProgContinueTop == <<SContinue>>

\* for x in range(1) { fn f() { break } }
ProgBreakInFn ==
    <<SFor("x", Call1("range", ENumber(1)),
           SBlock(<<SFunction("f", <<>>, <<SBreak>>)>>))>>

\* for x in range(1) { class E { m() { continue } } }
ProgContinueInMethod ==
    <<SFor("x", Call1("range", ENumber(1)),
           SBlock(<<SClass("E", <<SFunction("m", <<>>, <<SContinue>>)>>)>>))>>

\* fn f() { let x = 1; x -> 2 }
ProgLetLocal ==
    <<SFunction("f", <<>>, <<SLet("x", ENumber(1)), STransition("x", ENumber(2))>>)>>

\* fn f(a) { a -> 1 }
ProgParam == <<SFunction("f", <<"a">>, <<STransition("a", ENumber(1))>>)>>

\* fn f() { fn g() { return 0 } g -> 1 }
ProgLocalFn ==
    <<SFunction("f", <<>>,
                <<SFunction("g", <<>>, <<SReturn(Some(ENumber(0)))>>),
                  STransition("g", ENumber(1))>>)>>

\* fn f() { class K { } K -> 1 }
ProgLocalClass ==
    <<SFunction("f", <<>>, <<SClass("K", <<>>), STransition("K", ENumber(1))>>)>>

\* for x in range(3) { x -> 1 }
ProgForVar ==
    <<SFor("x", Call1("range", ENumber(3)),
           SBlock(<<STransition("x", ENumber(1))>>))>>

\* fn f() { for x in range(1) { let a = 5; break } let b = 7; return b }  f()
ProgBreakLocal ==
    <<SFunction("f", <<>>,
                <<SFor("x", Call1("range", ENumber(1)),
                       SBlock(<<SLet("a", ENumber(5)), SBreak>>)),
                  SLet("b", ENumber(7)),
                  SReturn(Some(EIdent("b")))>>),
      SExpr(Call0("f"))>>

\* fn sum() { state s = 0; for x in range(3) { s -> s + x } return s }  sum()
ProgFor ==
    <<SFunction("sum", <<>>,
                <<SState("s", ENumber(0)),
                  SFor("x", Call1("range", ENumber(3)),
                       SBlock(<<STransition("s", Plus(EIdent("s"), EIdent("x")))>>)),
                  SReturn(Some(EIdent("s")))>>),
      SExpr(Call0("sum"))>>

\* fn spin() { for x in range(2) { continue } return 0 }  spin()
ProgForContinue ==
    <<SFunction("spin", <<>>,
                <<SFor("x", Call1("range", ENumber(2)), SBlock(<<SContinue>>)),
                  SReturn(Some(ENumber(0)))>>),
      SExpr(Call0("spin"))>>

\* fn pick(n) { if n > 0 { 10 } else { 20 } if n > 0 { 30 } return n }
\* fn count() { state i = 0; while 2 > i { i -> i + 1 } return i }
\* fn stop() { while true { let a = 1; break } return 0 }
\* fn both(a, b) { a and b; a or b; return a }
\* pick(1); pick(0); count(); stop(); both(true, false); both(false, true)
ProgBranches ==
    <<SFunction("pick", <<"n">>,
                <<SIf(Gt(EIdent("n"), ENumber(0)),
                      SBlock(<<SExpr(ENumber(10))>>),
                      Some(SBlock(<<SExpr(ENumber(20))>>))),
                  SIf(Gt(EIdent("n"), ENumber(0)),
                      SBlock(<<SExpr(ENumber(30))>>), None),
                  SReturn(Some(EIdent("n")))>>),
      SFunction("count", <<>>,
                <<SState("i", ENumber(0)),
                  SWhile(Gt(ENumber(2), EIdent("i")),
                         SBlock(<<STransition("i", Plus(EIdent("i"), ENumber(1)))>>)),
                  SReturn(Some(EIdent("i")))>>),
      SFunction("stop", <<>>,
                <<SWhile(EBool(TRUE), SBlock(<<SLet("a", ENumber(1)), SBreak>>)),
                  SReturn(Some(ENumber(0)))>>),
      SFunction("both", <<"a", "b">>,
                <<SExpr(ELogical(EIdent("a"), "And", EIdent("b"))),
                  SExpr(ELogical(EIdent("a"), "Or", EIdent("b"))),
                  SReturn(Some(EIdent("a")))>>),
      SExpr(Call1("pick", ENumber(1))),
      SExpr(Call1("pick", ENumber(0))),
      SExpr(Call0("count")),
      SExpr(Call0("stop")),
      SExpr(ECall(EIdent("both"), <<EBool(TRUE), EBool(FALSE)>>)),
      SExpr(ECall(EIdent("both"), <<EBool(FALSE), EBool(TRUE)>>))>>

\* class P { m() { return 1 } }
\* let p = P(); p.me = p.m; p.m; p.m = 7; p.m; range(30000); p.q
ProgFieldOverMethod ==
    <<SClass("P", <<SFunction("m", <<>>, <<SReturn(Some(ENumber(1)))>>)>>),
      SLet("p", Call0("P")),
      SExpr(ESet(EIdent("p"), "me", EGet(EIdent("p"), "m"))),
      SExpr(EGet(EIdent("p"), "m")),
      SExpr(ESet(EIdent("p"), "m", ENumber(7))),
      SExpr(EGet(EIdent("p"), "m")),
      SExpr(Call1("range", ENumber(30000))),
      SExpr(EGet(EIdent("p"), "q"))>>

\* number of `let v = 0` statements of ProgWide: with the callee in slot 0
\* they fill the slots up to 255
WideLets == 255

\* fn outer() { let v = 0; ... (WideLets times) ...; let x = 7
\*              fn get() { return x }  return get() }
\* outer()
ProgWide ==
    <<SFunction("outer", <<>>,
                [i \in 1..WideLets |-> SLet("v", ENumber(0))]
                  \o <<SLet("x", ENumber(7)),
                       SFunction("get", <<>>, <<SReturn(Some(EIdent("x")))>>),
                       SReturn(Some(Call0("get")))>>),
      SExpr(Call0("outer"))>>

Programs ==
    <<ProgCounter, ProgImmutable, ProgUndefined, ProgRedefine, ProgLocal,
      ProgMakeCounter, ProgUpImm, ProgSharedGC, ProgBlockCapture, ProgProtoSwept,
      ProgClass, ProgTime, ProgRecurse,
      ProgArityClosure, ProgArityNative, ProgArityClass, ProgFieldSwept,
      ProgInitReturn, ProgNoInit, ProgAlias, ProgTwoInstances,
      ProgCycle, ProgWhy,
      ProgBreakTop, ProgContinueTop, ProgBreakInFn, ProgContinueInMethod,
      ProgLetLocal, ProgParam, ProgLocalFn, ProgLocalClass, ProgForVar,
      ProgBreakLocal, ProgFor, ProgForContinue,
      ProgFieldOverMethod, ProgBranches>>

\* chunks a host assembles by hand for VM::run
\* Constant 7; SetGlobal x; Return
ChunkSetGlobal ==
    [code |-> <<OpByte("Constant"), 0, 0, OpByte("SetGlobal"), 0, 0, OpByte("Return")>>,
     constants |-> <<Number(7)>>, names |-> <<"x">>]

HostChunks == <<ChunkSetGlobal>>

(***************************************************************************)
(* vm.rs: VM                                                               *)
(***************************************************************************)
VARIABLES
    stack,           \* VM::stack
    frames,          \* VM::frames, each [closure, chunk, ip, slot]
    globals,         \* VM::globals: name -> [value, is_state]
    causality,       \* VM::causality
    function_chunks, \* VM::function_chunks
    heap,            \* VM::heap
    open_upvalues,   \* VM::open_upvalues
    status,          \* "idle", "running", "done", "error" or "panic"
    result,          \* what the last run returned to the host
    runs,            \* number of run() calls made so far
    gc_done,         \* the GC check of the current interpreter step was made
    last             \* the operation executed last

vars == <<stack, frames, globals, causality, function_chunks, heap, open_upvalues,
          status, result, runs, gc_done, last>>

FRAMES_MAX == 64
STACK_MAX == 2048

NativeNames == {"len", "substr", "str", "num", "type", "range", "assert", "abs",
                "min", "max", "floor", "ceil", "round", "causal_graph",
                "transitions", "snapshot"}

\* arity of the natives (None: variadic)
NativeArity(name) ==
    CASE name \in {"substr", "range", "assert", "causal_graph"} -> None
      [] name \in {"min", "max"} -> Some(2)
      [] name = "snapshot" -> Some(0)
      [] OTHER -> Some(1)

Binding(value, is_state) == [value |-> value, is_state |-> is_state]

\* VM::new with define_natives
Init ==
    /\ stack = <<>>
    /\ frames = <<>>
    /\ globals = [n \in NativeNames |-> Binding(NativeFunction(n), FALSE)]
    /\ causality = NewLog
    /\ function_chunks = <<>>
    /\ heap = NewHeap
    /\ open_upvalues = <<>>
    /\ status = "idle"
    /\ result = Nil
    /\ runs = 0
    /\ gc_done = FALSE
    /\ last = "new"

\* CallFrame::new
CallFrame(closure, chunk, slot) ==
    [closure |-> closure, chunk |-> chunk, ip |-> 0, slot |-> slot]

\* `heap.alloc_function(Function::new("<script>", vec![], Rc::new(chunk), 0))`
AllocScript(h, chunk) == Alloc(h, FunctionObj("<script>", <<>>, chunk, 0))
\* `heap.alloc_closure(func_handle, Vec::new())`
AllocScriptClosure(f) == Alloc(f[1], ClosureObj(f[2], <<>>))

\* VM::run(chunk): wrap the script in a function and a closure, push the
\* closure and a frame at slot 0
Run(h, chunk, f, cl) ==
    /\ heap' = cl[1]
    /\ stack' = Append(stack, ClosureV(cl[2]))
    /\ frames' = Append(frames, CallFrame(cl[2], chunk, 0))
    /\ status' = "running"
    /\ result' = Nil

\* lib::run after compile: a compile error is reported and nothing runs,
\* otherwise register_chunks and VM::run
RunCompiled(compiled) ==
    IF compiled.err.some
    THEN /\ heap' = compiled.heap
         /\ status' = "error"
         /\ result' = compiled.err.v
         /\ UNCHANGED <<stack, frames, function_chunks>>
    ELSE /\ function_chunks' = function_chunks \o compiled.chunks
         /\ Run(compiled.heap, compiled.chunk,
                AllocScript(compiled.heap, compiled.chunk),
                AllocScriptClosure(AllocScript(compiled.heap, compiled.chunk)))

\* The host compiles program p with the VM's heap, registers the chunks and
\* calls VM::run (lib::run, run_file, one line of run_repl).
HostRun(p) ==
    /\ status \in {"idle", "done", "error"}
    /\ runs < MaxRuns
    /\ RunCompiled(Compile(Programs[p], heap))
    /\ runs' = runs + 1
    /\ gc_done' = FALSE
    /\ last' = "run"
    /\ UNCHANGED <<globals, causality, open_upvalues>>

\* The host calls VM::run with chunk k of its own
HostRunChunk(k) ==
    /\ status \in {"idle", "done", "error"}
    /\ runs < MaxRuns
    /\ Run(heap, HostChunks[k], AllocScript(heap, HostChunks[k]),
           AllocScriptClosure(AllocScript(heap, HostChunks[k])))
    /\ runs' = runs + 1
    /\ gc_done' = FALSE
    /\ last' = "run"
    /\ UNCHANGED <<globals, causality, open_upvalues, function_chunks>>

\* The host clears the log of a VM at rest through the public field
\* `vm.causality`
HostClear ==
    /\ status \in {"idle", "done", "error"}
    /\ causality' = Clear(causality)
    /\ last' = "clear"
    /\ UNCHANGED <<stack, frames, globals, function_chunks, heap, open_upvalues,
                   status, result, runs, gc_done>>

\* strings a host interns through the public field `vm.heap`
HostStrings == {"a", "b"}

\* the host is done with its runs and uses the heap of the VM at rest, when
\* that heap has at most MaxHostHeap slots
HostAtRest ==
    /\ status \in {"idle", "done", "error"}
    /\ runs = MaxRuns
    /\ Len(heap.objects) <= MaxHostHeap

\* The host calls vm.heap.alloc_string(s) and keeps the handle
StringReturned(a, s) ==
    /\ heap' = a[1]
    /\ result' = [t |-> "StringHandle", s |-> s, h |-> a[2]]
HostAllocString(s) ==
    /\ HostAtRest
    /\ StringReturned(AllocString(heap, s), s)
    /\ Len(heap'.objects) <= MaxHostHeap
    /\ last' = "alloc_string"
    /\ UNCHANGED <<stack, frames, globals, causality, function_chunks, open_upvalues,
                   status, runs, gc_done>>

\* the host holds a string handle
HoldsString == "t" \in DOMAIN result /\ result.t = "StringHandle"

\* The host keeps the string it holds alive: vm.heap.mark(handle)
HostMark ==
    /\ HostAtRest
    /\ HoldsString
    /\ heap' = Mark(heap, result.h)
    /\ last' = "mark"
    /\ UNCHANGED <<stack, frames, globals, causality, function_chunks, open_upvalues,
                   status, result, runs, gc_done>>

\* handles marked by VM::mark_roots: stack, globals, constants of registered chunks
RootHandles ==
    SeqChildren(stack)
      \cup UNION {RangeOfSeq(ValueChildren(globals[n].value)) : n \in DOMAIN globals}
      \cup UNION {SeqChildren(function_chunks[i].constants) :
                     i \in 1..Len(function_chunks)}

\* VM::mark_roots
MarkRoots(h) == MarkSet(h, RootHandles)

\* `open_upvalues.retain(|h| heap.is_marked(h))`
RECURSIVE Retain(_, _)
Retain(ups, h) ==
    IF Len(ups) = 0 THEN <<>>
    ELSE (IF IsMarked(h, ups[1]) THEN <<ups[1]>> ELSE <<>>) \o Retain(Tail(ups), h)

\* heap after mark_roots, trace_references and sweep
Collected(h) == Sweep(TraceReferences(MarkRoots(h)))

\* the GC check at the top of an interpreter step: VM::collect_garbage
CollectGarbage ==
    /\ status = "running"
    /\ ~gc_done
    /\ ShouldCollect(heap)
    /\ LET traced == TraceReferences(MarkRoots(heap))
           swept == Sweep(traced)
       IN \/ /\ heap' = swept
             /\ open_upvalues' = Retain(open_upvalues, swept)
             /\ gc_done' = TRUE
             /\ UNCHANGED status
          \/ /\ SweepUnderflows(traced)
             /\ status' = "panic"
             /\ UNCHANGED <<heap, open_upvalues, gc_done>>
    /\ last' = "gc"
    /\ UNCHANGED <<stack, frames, globals, causality, function_chunks, result, runs>>

\* The host calls vm.collect_garbage()
HostCollectGarbage ==
    /\ HostAtRest
    /\ IF SweepUnderflows(TraceReferences(MarkRoots(heap)))
       THEN /\ status' = "panic"
            /\ UNCHANGED <<heap, open_upvalues>>
       ELSE /\ heap' = Collected(heap)
            /\ open_upvalues' = Retain(open_upvalues, Collected(heap))
            /\ UNCHANGED status
    /\ last' = "collect"
    /\ UNCHANGED <<stack, frames, globals, causality, function_chunks, result, runs,
                   gc_done>>

\* ---- helpers of the interpreter loop ----
\* VM::current_frame, VM::current_chunk
Frame == frames[Len(frames)]
CurrentChunk == Frame.chunk
\* the opcode read_byte delivers to the next step
CurOp == OpOf(CurrentChunk.code[Frame.ip + 1])
\* first and second u16 operand, the u8 operand
Operand1 == ReadU16(CurrentChunk, Frame.ip + 1)
Operand2 == ReadU16(CurrentChunk, Frame.ip + 3)
OperandByte == CurrentChunk.code[Frame.ip + 2]
\* VM::get_name
GetName(idx) == CurrentChunk.names[idx + 1]

\* the step dispatches opcode op (after the GC check)
Dispatch(op) ==
    /\ status = "running"
    /\ gc_done \/ ~ShouldCollect(heap)
    /\ Frame.ip < Len(CurrentChunk.code)
    /\ CurOp = op

\* ip past the opcode and n operand bytes
Advance(n) == [frames EXCEPT ![Len(frames)].ip = @ + 1 + n]

\* VM::peek(0), and the stack after VM::pop
Top == stack[Len(stack)]
Popped == SubSeq(stack, 1, Len(stack) - 1)
\* Vec::truncate
Truncate(s, n) == IF n < Len(s) THEN SubSeq(s, 1, n) ELSE s

\* the step ends normally
Continue(op) == /\ gc_done' = FALSE /\ last' = op /\ UNCHANGED <<status, result, runs>>
\* a step that notes the error and goes on with the next opcode
ThrowResumes(op, e) ==
    /\ status' = status /\ result' = e
    /\ gc_done' = FALSE /\ last' = op /\ UNCHANGED runs

\* the step returns Err(e) to the host
Throw(op, e) ==
    /\ status' = "error" /\ result' = e
    /\ gc_done' = FALSE /\ last' = op /\ UNCHANGED runs
\* the step panics (index out of bounds, unwrap of None, expect)
Panic(op) ==
    /\ status' = "panic"
    /\ gc_done' = FALSE /\ last' = op
    /\ UNCHANGED <<stack, frames, globals, causality, function_chunks, heap,
                   open_upvalues, result, runs>>

\* OpCode::Constant
OpConstant ==
    /\ Dispatch("Constant")
    /\ stack' = Append(stack, CurrentChunk.constants[Operand1 + 1])
    /\ frames' = Advance(2)
    /\ Continue("Constant")
    /\ UNCHANGED <<globals, causality, function_chunks, heap, open_upvalues>>

\* OpCode::Nil
OpNil ==
    /\ Dispatch("Nil")
    /\ stack' = Append(stack, Nil)
    /\ frames' = Advance(0)
    /\ Continue("Nil")
    /\ UNCHANGED <<globals, causality, function_chunks, heap, open_upvalues>>

\* OpCode::Pop
OpPop ==
    /\ Dispatch("Pop")
    /\ IF Len(stack) = 0 THEN Panic("Pop")
       ELSE /\ stack' = Popped
            /\ frames' = Advance(0)
            /\ Continue("Pop")
            /\ UNCHANGED <<globals, causality, function_chunks, heap, open_upvalues>>

\* OpCode::DefineGlobal and OpCode::DefineState
Define(op, is_state) ==
    /\ globals' = MapPut(globals, GetName(Operand1), Binding(Top, is_state))
    /\ stack' = Popped
    /\ frames' = Advance(2)
    /\ Continue(op)
    /\ UNCHANGED <<causality, function_chunks, heap, open_upvalues>>
OpDefineGlobal ==
    /\ Dispatch("DefineGlobal")
    /\ Define("DefineGlobal", FALSE)
OpDefineState ==
    /\ Dispatch("DefineState")
    /\ Define("DefineState", TRUE)

\* OpCode::GetGlobal
OpGetGlobal ==
    /\ Dispatch("GetGlobal")
    /\ frames' = Advance(2)
    /\ IF MapHas(globals, GetName(Operand1))
       THEN /\ stack' = Append(stack, globals[GetName(Operand1)].value)
            /\ Continue("GetGlobal")
       ELSE /\ Throw("GetGlobal", Error("UndefinedVariable", GetName(Operand1)))
            /\ UNCHANGED stack
    /\ UNCHANGED <<globals, causality, function_chunks, heap, open_upvalues>>

\* OpCode::SetGlobal
OpSetGlobal ==
    /\ Dispatch("SetGlobal")
    /\ frames' = Advance(2)
    /\ IF MapHas(globals, GetName(Operand1))
       THEN IF ~globals[GetName(Operand1)].is_state
            THEN /\ Throw("SetGlobal", Error("ImmutableVariable", GetName(Operand1)))
                 /\ UNCHANGED globals
            ELSE /\ globals' = [globals EXCEPT ![GetName(Operand1)].value = Top]
                 /\ Continue("SetGlobal")
       ELSE /\ Throw("SetGlobal", Error("UndefinedVariable", GetName(Operand1)))
            /\ UNCHANGED globals
    /\ UNCHANGED <<stack, causality, function_chunks, heap, open_upvalues>>

\* OpCode::Transition without the is_state check
OpTransitionUnchecked ==
    /\ Dispatch("Transition")
    /\ stack' = Popped
    /\ frames' = Advance(2)
    /\ IF MapHas(globals, GetName(Operand1))
       THEN /\ causality' = RecordMutation(causality, GetName(Operand1),
                                           globals[GetName(Operand1)].value, Top)
            /\ globals' = [globals EXCEPT ![GetName(Operand1)].value = Top]
            /\ Continue("Transition")
       ELSE /\ Throw("Transition", Error("UndefinedVariable", GetName(Operand1)))
            /\ UNCHANGED <<globals, causality>>
    /\ UNCHANGED <<function_chunks, heap, open_upvalues>>

\* OpCode::Transition
OpTransition ==
    /\ Dispatch("Transition")
    /\ stack' = Popped
    /\ frames' = Advance(2)
    /\ IF MapHas(globals, GetName(Operand1))
       THEN IF ~globals[GetName(Operand1)].is_state
            THEN /\ Throw("Transition", Error("ImmutableVariable", GetName(Operand1)))
                 /\ UNCHANGED <<globals, causality>>
            ELSE /\ causality' = RecordMutation(causality, GetName(Operand1),
                                                globals[GetName(Operand1)].value, Top)
                 /\ globals' = [globals EXCEPT ![GetName(Operand1)].value = Top]
                 /\ Continue("Transition")
       ELSE /\ Throw("Transition", Error("UndefinedVariable", GetName(Operand1)))
            /\ UNCHANGED <<globals, causality>>
    /\ UNCHANGED <<function_chunks, heap, open_upvalues>>

\* OpCode::TransitionLocal (slot: u16, name: u16)
OpTransitionLocal ==
    /\ Dispatch("TransitionLocal")
    /\ IF Len(stack) = 0 \/ Frame.slot + Operand1 >= Len(stack) - 1
       THEN Panic("TransitionLocal")
       ELSE /\ causality' = RecordMutation(causality, GetName(Operand2),
                                           stack[Frame.slot + Operand1 + 1], Top)
            /\ stack' = [Popped EXCEPT ![Frame.slot + Operand1 + 1] = Top]
            /\ frames' = Advance(4)
            /\ Continue("TransitionLocal")
            /\ UNCHANGED <<globals, function_chunks, heap, open_upvalues>>

\* OpCode::GetLocal
OpGetLocal ==
    /\ Dispatch("GetLocal")
    /\ IF Frame.slot + Operand1 >= Len(stack) THEN Panic("GetLocal")
       ELSE /\ stack' = Append(stack, stack[Frame.slot + Operand1 + 1])
            /\ frames' = Advance(2)
            /\ Continue("GetLocal")
            /\ UNCHANGED <<globals, causality, function_chunks, heap, open_upvalues>>

\* OpCode::Add on two numbers; any other pair used by the programs is a
\* TypeMismatch
OpAdd ==
    /\ Dispatch("Add")
    /\ IF Len(stack) < 2 THEN Panic("Add")
       ELSE /\ frames' = Advance(0)
            /\ IF stack[Len(stack) - 1].t = "Number" /\ Top.t = "Number"
               THEN /\ stack' = Append(SubSeq(stack, 1, Len(stack) - 2),
                                       Number(stack[Len(stack) - 1].n + Top.n))
                    /\ Continue("Add")
               ELSE /\ stack' = SubSeq(stack, 1, Len(stack) - 2)
                    /\ Throw("Add", Error("TypeMismatch", "numbers"))
            /\ UNCHANGED <<globals, causality, function_chunks, heap, open_upvalues>>

\* OpCode::Time
OpTime ==
    /\ Dispatch("Time")
    /\ stack' = Append(stack, Number(CurrentTime(causality)))
    /\ frames' = Advance(0)
    /\ Continue("Time")
    /\ UNCHANGED <<globals, causality, function_chunks, heap, open_upvalues>>

\* OpCode::Why
OpWhy ==
    /\ Dispatch("Why")
    /\ stack' = Append(stack, String(Why(causality, GetName(Operand1))))
    /\ frames' = Advance(2)
    /\ Continue("Why")
    /\ UNCHANGED <<globals, causality, function_chunks, heap, open_upvalues>>

\* OpCode::SetLocal: stack[frame.slot + slot] = peek(0), nothing is popped
OpSetLocal ==
    /\ Dispatch("SetLocal")
    /\ IF Len(stack) = 0 \/ Frame.slot + Operand1 >= Len(stack) THEN Panic("SetLocal")
       ELSE /\ stack' = [stack EXCEPT ![Frame.slot + Operand1 + 1] = Top]
            /\ frames' = Advance(2)
            /\ Continue("SetLocal")
            /\ UNCHANGED <<globals, causality, function_chunks, heap, open_upvalues>>

\* OpCode::Greater: comparison_op(|a, b| a > b), b popped first
OpTrue ==
    /\ Dispatch("True")
    /\ stack' = Append(stack, Bool(TRUE))
    /\ frames' = Advance(0)
    /\ Continue("True")
    /\ UNCHANGED <<globals, causality, function_chunks, heap, open_upvalues>>

OpFalse ==
    /\ Dispatch("False")
    /\ stack' = Append(stack, Bool(FALSE))
    /\ frames' = Advance(0)
    /\ Continue("False")
    /\ UNCHANGED <<globals, causality, function_chunks, heap, open_upvalues>>

OpGreater ==
    /\ Dispatch("Greater")
    /\ IF Len(stack) < 2 THEN Panic("Greater")
       ELSE /\ frames' = Advance(0)
            /\ IF stack[Len(stack) - 1].t = "Number" /\ Top.t = "Number"
               THEN /\ stack' = Append(SubSeq(stack, 1, Len(stack) - 2),
                                       Bool(stack[Len(stack) - 1].n > Top.n))
                    /\ Continue("Greater")
               ELSE /\ stack' = SubSeq(stack, 1, Len(stack) - 2)
                    /\ Throw("Greater", Error("TypeMismatch", "numbers"))
            /\ UNCHANGED <<globals, causality, function_chunks, heap, open_upvalues>>

\* OpCode::Jump: ip (already past the operand) + offset
OpJump ==
    /\ Dispatch("Jump")
    /\ frames' = Advance(2 + Operand1)
    /\ Continue("Jump")
    /\ UNCHANGED <<stack, globals, causality, function_chunks, heap, open_upvalues>>

\* OpCode::JumpIfFalse: jumps when peek(0) is falsey, pops nothing
OpJumpIfFalse ==
    /\ Dispatch("JumpIfFalse")
    /\ IF Len(stack) = 0 THEN Panic("JumpIfFalse")
       ELSE /\ frames' = Advance(IF IsTruthy(Top) THEN 2 ELSE 2 + Operand1)
            /\ Continue("JumpIfFalse")
            /\ UNCHANGED <<stack, globals, causality, function_chunks, heap,
                           open_upvalues>>

\* OpCode::Loop: ip (already past the operand) - offset; the usize
\* subtraction panics below zero
OpJumpIfTrue ==
    /\ Dispatch("JumpIfTrue")
    /\ IF Len(stack) = 0 THEN Panic("JumpIfTrue")
       ELSE /\ frames' = Advance(IF IsTruthy(Top) THEN 2 + Operand1 ELSE 2)
            /\ Continue("JumpIfTrue")
            /\ UNCHANGED <<stack, globals, causality, function_chunks, heap,
                           open_upvalues>>

OpLoop ==
    /\ Dispatch("Loop")
    /\ IF Frame.ip + 3 < Operand1 THEN Panic("Loop")
       ELSE /\ frames' = Advance(2 - Operand1)
            /\ Continue("Loop")
            /\ UNCHANGED <<stack, globals, causality, function_chunks, heap,
                           open_upvalues>>

\* `*i as usize`: negative numbers saturate to 0
AsUsize(n) == IF n < 0 THEN 0 ELSE n

\* what OpCode::Index pushes for an array value and a number
IndexArray(h, array, index) ==
    IF HeapGetKind(h, array.h, "Array").some
    THEN IF ArrayGet(HeapGet(h, array.h), AsUsize(index.n)).some
         THEN ArrayGet(HeapGet(h, array.h), AsUsize(index.n)).v
         ELSE Nil
    ELSE Nil

\* OpCode::Index: index popped first, then the array; the programs index
\* arrays only, a string receiver is left out
OpIndex ==
    /\ Dispatch("Index")
    /\ Len(stack) >= 2 => stack[Len(stack) - 1].t # "String"
    /\ IF Len(stack) < 2 THEN Panic("Index")
       ELSE /\ frames' = Advance(0)
            /\ IF stack[Len(stack) - 1].t = "Array" /\ Top.t = "Number"
               THEN /\ stack' = Append(SubSeq(stack, 1, Len(stack) - 2),
                                       IndexArray(heap, stack[Len(stack) - 1], Top))
                    /\ Continue("Index")
               ELSE /\ stack' = SubSeq(stack, 1, Len(stack) - 2)
                    /\ Throw("Index", Error("TypeMismatch", "array or string"))
            /\ UNCHANGED <<globals, causality, function_chunks, heap, open_upvalues>>

\* ---- calls ----
\* the callee of a Call: peek(arg_count)
Callee == stack[Len(stack) - OperandByte]
CalleeIs(t) == /\ Dispatch("Call") /\ Len(stack) > OperandByte /\ Callee.t = t

Ok(v) == [ok |-> TRUE, v |-> v]
Err(e) == [ok |-> FALSE, err |-> e]

\* VM::call_function: Ok(the frame to push) or Err
CallFunction(h, closure_handle, arg_count) ==
    IF ~HeapGetKind(h, closure_handle, "Closure").some
    THEN Err(Error("RuntimeError", "Called value is not a closure"))
    ELSE IF ~HeapGetKind(h, HeapGet(h, closure_handle).function, "Function").some
    THEN Err(Error("RuntimeError", "Function not found"))
    ELSE IF arg_count # Len(HeapGet(h, HeapGet(h, closure_handle).function).params)
    THEN Err(Error("WrongArity",
                   <<Len(HeapGet(h, HeapGet(h, closure_handle).function).params),
                     arg_count>>))
    ELSE IF Len(frames) >= FRAMES_MAX THEN Err(Error("StackOverflow", <<>>))
    ELSE Ok(CallFrame(closure_handle,
                      HeapGet(h, HeapGet(h, closure_handle).function).chunk,
                      Len(stack) - arg_count - 1))

\* the end of a Call that went through call_function
Called(op, r) ==
    IF r.ok
    THEN /\ frames' = Append(Advance(1), r.v)
         /\ Continue(op)
    ELSE /\ frames' = Advance(1)
         /\ Throw(op, r.err)

\* OpCode::Call of a Value::Closure
OpCallClosure ==
    /\ CalleeIs("Closure")
    /\ Called("Call", CallFunction(heap, Callee.h, OperandByte))
    /\ UNCHANGED <<stack, globals, causality, function_chunks, heap, open_upvalues>>

\* the natives the programs call
ModelledNatives == {"range", "len"}

\* the native range(n) / range(start, end): Ok(<<heap, value>>) or Err(msg)
RangeArray(a) == Ok(<<a[1], ArrayV(a[2])>>)
NativeRange(h, args) ==
    IF Len(args) = 1
    THEN IF args[1].t = "Number" THEN RangeArray(Alloc(h, ArrayObj(<<>>, 0, args[1].n)))
         ELSE Err("range() requires number")
    ELSE IF Len(args) = 2
    THEN IF args[1].t = "Number" /\ args[2].t = "Number"
         THEN RangeArray(Alloc(h, ArrayObj(<<>>, args[1].n, args[2].n)))
         ELSE Err("range() requires numbers")
    ELSE Err("range() takes 1 or 2 arguments")

\* the native len(val) on an array
NativeLen(h, args) ==
    IF args[1].t = "Array"
    THEN IF HeapGetKind(h, args[1].h, "Array").some
         THEN Ok(<<h, Number(ArrayLen(HeapGet(h, args[1].h)))>>)
         ELSE Err("Array not found (GC error?)")
    ELSE Err("len() requires string or array")

NativeCall(name, h, args) ==
    CASE name = "range" -> NativeRange(h, args)
      [] name = "len" -> NativeLen(h, args)

\* the end of a native call: pop args and function, push the result
NativeReturn(r, arg_count) ==
    IF r.ok
    THEN /\ heap' = r.v[1]
         /\ stack' = Append(Truncate(stack, Len(stack) - arg_count - 1), r.v[2])
         /\ Continue("Call")
    ELSE /\ Throw("Call", Error("RuntimeError", r.err))
         /\ UNCHANGED <<heap, stack>>

\* OpCode::Call of a Value::NativeFunction
OpCallNative ==
    /\ CalleeIs("NativeFunction")
    /\ Callee.nat \in ModelledNatives
    /\ frames' = Advance(1)
    /\ IF NativeArity(Callee.nat).some /\ OperandByte # NativeArity(Callee.nat).v
       THEN /\ Throw("Call", Error("WrongArity",
                                   <<NativeArity(Callee.nat).v, OperandByte>>))
            /\ UNCHANGED <<heap, stack>>
       ELSE NativeReturn(
                NativeCall(Callee.nat, heap,
                           SubSeq(stack, Len(stack) - OperandByte + 1, Len(stack))),
                OperandByte)
    /\ UNCHANGED <<globals, causality, function_chunks, open_upvalues>>

\* the 'init' method of a class, as Option<Handle>
InitOf(h, class_handle) ==
    IF MapHas(HeapGet(h, class_handle).methods, "init")
    THEN Some(HeapGet(h, class_handle).methods["init"]) ELSE None

\* Value::Class with an init method, after alloc_instance
CallInit(a, init_handle) ==
    /\ heap' = a[1]
    /\ stack' = [stack EXCEPT ![Len(stack) - OperandByte] = InstanceV(a[2])]
    /\ Called("Call", CallFunction(a[1], init_handle, OperandByte))

\* Value::Class without an init method and without the arg_count check
CallNoInitAnyArity(a) ==
    /\ heap' = a[1]
    /\ frames' = Advance(1)
    /\ stack' = Append(Popped, InstanceV(a[2]))
    /\ Continue("Call")

\* Value::Class without an init method, after alloc_instance
CallNoInit(a) ==
    /\ heap' = a[1]
    /\ IF OperandByte # 0
       THEN /\ frames' = Advance(1)
            /\ Throw("Call", Error("WrongArity", <<0, OperandByte>>))
            /\ UNCHANGED stack
       ELSE /\ frames' = Advance(1)
            /\ stack' = Append(Popped, InstanceV(a[2]))
            /\ Continue("Call")

\* OpCode::Call of a Value::Class
OpCallClass ==
    /\ CalleeIs("Class")
    /\ IF ~HeapGetKind(heap, Callee.h, "Class").some THEN Panic("Call")
       ELSE /\ IF InitOf(heap, Callee.h).some
               THEN CallInit(Alloc(heap, InstanceObj(Callee.h, EmptyMap)),
                             InitOf(heap, Callee.h).v)
               ELSE CallNoInit(Alloc(heap, InstanceObj(Callee.h, EmptyMap)))
            /\ UNCHANGED <<globals, causality, function_chunks, open_upvalues>>

\* a call of a Value::BoundMethod that leaves the callee slot as it is
OpCallBoundMethodKeepsCallee ==
    /\ CalleeIs("BoundMethod")
    /\ IF ~HeapGetKind(heap, Callee.h, "BoundMethod").some THEN Panic("Call")
       ELSE /\ Called("Call", CallFunction(heap, HeapGet(heap, Callee.h).method,
                                           OperandByte))
            /\ UNCHANGED <<stack, globals, causality, function_chunks, heap,
                           open_upvalues>>

\* OpCode::Call of a Value::BoundMethod
OpCallBoundMethod ==
    /\ CalleeIs("BoundMethod")
    /\ IF ~HeapGetKind(heap, Callee.h, "BoundMethod").some THEN Panic("Call")
       ELSE /\ stack' = [stack EXCEPT ![Len(stack) - OperandByte] =
                                          HeapGet(heap, Callee.h).receiver]
            /\ Called("Call", CallFunction(heap, HeapGet(heap, Callee.h).method,
                                           OperandByte))
            /\ UNCHANGED <<globals, causality, function_chunks, heap, open_upvalues>>

\* ---- upvalues ----
\* Vec::swap_remove(i), i counted from 0
SwapRemove(s, i) ==
    IF i = Len(s) - 1 THEN SubSeq(s, 1, Len(s) - 1)
    ELSE SubSeq([s EXCEPT ![i + 1] = s[Len(s)]], 1, Len(s) - 1)

\* handle is an upvalue that is Open at stack index `location`
IsOpenAt(h, handle, location) ==
    /\ HeapGet(h, handle).kind = "Upvalue"
    /\ HeapGet(h, handle).location.open
    /\ HeapGet(h, handle).location.slot = location

\* the first open upvalue of the list that points to `location`
FindOpen(h, ups, location) ==
    IF \E i \in 1..Len(ups) : IsOpenAt(h, ups[i], location)
    THEN Some(ups[CHOOSE i \in 1..Len(ups) :
                     /\ IsOpenAt(h, ups[i], location)
                     /\ \A j \in 1..(i - 1) : ~IsOpenAt(h, ups[j], location)])
    ELSE None

\* "Create new upvalue": acc is [heap, open_upvalues, upvalues]
NewUpvalue(acc, a) ==
    [heap |-> a[1], open_upvalues |-> Append(acc.open_upvalues, a[2]),
     upvalues |-> Append(acc.upvalues, a[2])]

\* VM::capture_upvalue(location), the handle appended to acc.upvalues
CaptureUpvalue(acc, location) ==
    IF FindOpen(acc.heap, acc.open_upvalues, location).some
    THEN [acc EXCEPT !.upvalues =
                        Append(@, FindOpen(acc.heap, acc.open_upvalues, location).v)]
    ELSE NewUpvalue(acc, Alloc(acc.heap, UpvalueObj(Open(location))))

\* "Capture from enclosing closure"
EnclosingUpvalue(acc, index) ==
    [acc EXCEPT !.upvalues = Append(@, HeapGet(acc.heap, Frame.closure).upvalues[index + 1])]

\* the descriptor loop of OpCode::Closure: pair k of `count` (is_local, index)
RECURSIVE CaptureUpvalues(_, _, _)
CaptureUpvalues(acc, k, count) ==
    IF k >= count THEN acc
    ELSE CaptureUpvalues(
            IF CurrentChunk.code[Frame.ip + 4 + 2 * k] # 0
            THEN CaptureUpvalue(acc, Frame.slot + CurrentChunk.code[Frame.ip + 5 + 2 * k])
            ELSE EnclosingUpvalue(acc, CurrentChunk.code[Frame.ip + 5 + 2 * k]),
            k + 1, count)

\* alloc_closure and push, after the descriptors are read
PushClosure(func_handle, acc, a) ==
    /\ heap' = a[1]
    /\ open_upvalues' = acc.open_upvalues
    /\ stack' = Append(stack, ClosureV(a[2]))
    /\ frames' = Advance(2 + 2 * Len(acc.upvalues))

MakeClosure(func_handle, acc) ==
    PushClosure(func_handle, acc, Alloc(acc.heap, ClosureObj(func_handle, acc.upvalues)))

\* OpCode::Closure
OpClosure ==
    /\ Dispatch("Closure")
    /\ IF CurrentChunk.constants[Operand1 + 1].t # "Function"
       THEN /\ Throw("Closure", Error("RuntimeError", "Closure operand must be a function"))
            /\ frames' = Advance(2)
            /\ UNCHANGED <<stack, globals, causality, function_chunks, heap,
                           open_upvalues>>
       ELSE IF ~HeapGetKind(heap, CurrentChunk.constants[Operand1 + 1].h,
                            "Function").some
       THEN Panic("Closure")
       ELSE /\ MakeClosure(
                  CurrentChunk.constants[Operand1 + 1].h,
                  CaptureUpvalues(
                      [heap |-> heap, open_upvalues |-> open_upvalues, upvalues |-> <<>>],
                      0,
                      HeapGet(heap, CurrentChunk.constants[Operand1 + 1].h).upvalue_count))
            /\ Continue("Closure")
            /\ UNCHANGED <<globals, causality, function_chunks>>

\* the upvalue handle `closure.upvalues[idx]` of the running closure
FrameUpvalue(idx) == HeapGet(heap, Frame.closure).upvalues[idx + 1]

\* the read of an upvalue cell: Some(value), None when `self.stack[slot]` is
\* out of bounds; a handle that is no upvalue reads Nil
ReadUpvalue(h, st, handle) ==
    IF HeapGet(h, handle).kind # "Upvalue" THEN Some(Nil)
    ELSE IF ~HeapGet(h, handle).location.open
    THEN Some(HeapGet(h, handle).location.value)
    ELSE IF HeapGet(h, handle).location.slot < Len(st)
    THEN Some(st[HeapGet(h, handle).location.slot + 1])
    ELSE None

\* OpCode::GetUpvalue
OpGetUpvalue ==
    /\ Dispatch("GetUpvalue")
    /\ IF \/ HeapGet(heap, Frame.closure).kind # "Closure"
          \/ ~ReadUpvalue(heap, stack, FrameUpvalue(Operand1)).some
       THEN Panic("GetUpvalue")
       ELSE /\ stack' = Append(stack, ReadUpvalue(heap, stack, FrameUpvalue(Operand1)).v)
            /\ frames' = Advance(2)
            /\ Continue("GetUpvalue")
            /\ UNCHANGED <<globals, causality, function_chunks, heap, open_upvalues>>

\* the write of an upvalue cell: the stack slot of an open cell, the value of a
\* closed one; a handle that is no upvalue is skipped
WriteUpvalueStack(h, st, handle, value) ==
    IF HeapGet(h, handle).kind = "Upvalue" /\ HeapGet(h, handle).location.open
    THEN [st EXCEPT ![HeapGet(h, handle).location.slot + 1] = value]
    ELSE st
WriteUpvalueHeap(h, handle, value) ==
    IF HeapGet(h, handle).kind = "Upvalue" /\ ~HeapGet(h, handle).location.open
    THEN [h EXCEPT !.objects[handle + 1].location = Closed(value)]
    ELSE h

\* OpCode::TransitionUpvalue (slot: u16, name: u16)
OpTransitionUpvalue ==
    /\ Dispatch("TransitionUpvalue")
    /\ IF \/ Len(stack) = 0
          \/ HeapGet(heap, Frame.closure).kind # "Closure"
          \/ ~ReadUpvalue(heap, Popped, FrameUpvalue(Operand1)).some
       THEN Panic("TransitionUpvalue")
       ELSE /\ causality' = RecordMutation(
                                causality, GetName(Operand2),
                                ReadUpvalue(heap, Popped, FrameUpvalue(Operand1)).v, Top)
            /\ stack' = WriteUpvalueStack(heap, Popped, FrameUpvalue(Operand1), Top)
            /\ heap' = WriteUpvalueHeap(heap, FrameUpvalue(Operand1), Top)
            /\ frames' = Advance(4)
            /\ Continue("TransitionUpvalue")
            /\ UNCHANGED <<globals, function_chunks, open_upvalues>>

\* VM::close_upvalues(last) over the stack st: acc is [heap, open_upvalues,
\* panic], i the loop index
RECURSIVE CloseUpvalues(_, _, _, _)
CloseUpvalues(acc, i, last_slot, st) ==
    IF acc.panic \/ i >= Len(acc.open_upvalues) THEN acc
    ELSE IF HeapGet(acc.heap, acc.open_upvalues[i + 1]).kind # "Upvalue"
    THEN CloseUpvalues([acc EXCEPT !.open_upvalues = SwapRemove(@, i)], i, last_slot, st)
    ELSE IF ~HeapGet(acc.heap, acc.open_upvalues[i + 1]).location.open
    THEN CloseUpvalues([acc EXCEPT !.open_upvalues = SwapRemove(@, i)], i, last_slot, st)
    ELSE IF HeapGet(acc.heap, acc.open_upvalues[i + 1]).location.slot < last_slot
    THEN CloseUpvalues(acc, i + 1, last_slot, st)
    ELSE IF HeapGet(acc.heap, acc.open_upvalues[i + 1]).location.slot >= Len(st)
    THEN [acc EXCEPT !.panic = TRUE]
    ELSE CloseUpvalues(
            [acc EXCEPT
                !.heap.objects[acc.open_upvalues[i + 1] + 1].location =
                    Closed(st[HeapGet(acc.heap, acc.open_upvalues[i + 1]).location.slot + 1]),
                !.open_upvalues = SwapRemove(@, i)],
            i, last_slot, st)

\* OpCode::Return without `self.stack.truncate(frame.slot)`
ReturnedUntruncated(closed) ==
    IF closed.panic THEN Panic("Return")
    ELSE /\ heap' = closed.heap
         /\ open_upvalues' = closed.open_upvalues
         /\ frames' = SubSeq(frames, 1, Len(frames) - 1)
         /\ IF Len(frames) = 1
            THEN /\ stack' = Popped
                 /\ status' = "done"
                 /\ result' = Top
                 /\ gc_done' = FALSE /\ last' = "Return" /\ UNCHANGED runs
            ELSE /\ stack' = stack
                 /\ Continue("Return")
         /\ UNCHANGED <<globals, causality, function_chunks>>

\* OpCode::Return after close_upvalues(frame.slot)
Returned(closed) ==
    IF closed.panic THEN Panic("Return")
    ELSE /\ heap' = closed.heap
         /\ open_upvalues' = closed.open_upvalues
         /\ frames' = SubSeq(frames, 1, Len(frames) - 1)
         /\ IF Len(frames) = 1
            THEN /\ stack' = Popped
                 /\ status' = "done"
                 /\ result' = Top
                 /\ gc_done' = FALSE /\ last' = "Return" /\ UNCHANGED runs
            ELSE /\ stack' = Append(Truncate(Popped, Frame.slot), Top)
                 /\ Continue("Return")
         /\ UNCHANGED <<globals, causality, function_chunks>>

\* OpCode::Return
OpReturn ==
    /\ Dispatch("Return")
    /\ IF Len(stack) = 0 THEN Panic("Return")
       ELSE Returned(CloseUpvalues([heap |-> heap, open_upvalues |-> open_upvalues,
                                    panic |-> FALSE],
                                   0, Frame.slot, Popped))

\* ---- classes and instances ----
\* OpCode::Class
ClassCreated(a) ==
    /\ heap' = a[1]
    /\ stack' = Append(stack, ClassV(a[2]))
OpClass ==
    /\ Dispatch("Class")
    /\ ClassCreated(Alloc(heap, ClassObj(GetName(Operand1), EmptyMap)))
    /\ frames' = Advance(2)
    /\ Continue("Class")
    /\ UNCHANGED <<globals, causality, function_chunks, open_upvalues>>

\* OpCode::Method
OpMethod ==
    /\ Dispatch("Method")
    /\ IF Len(stack) < 2 THEN Panic("Method")
       ELSE /\ frames' = Advance(2)
            /\ IF stack[Len(stack) - 1].t # "Class"
               THEN /\ Throw("Method", Error("RuntimeError",
                                             "Cannot define method on non-class"))
                    /\ UNCHANGED <<stack, heap>>
               ELSE IF Top.t # "Closure"
               THEN /\ Throw("Method", Error("RuntimeError", "Method must be a closure"))
                    /\ UNCHANGED <<stack, heap>>
               ELSE /\ heap' =
                         IF HeapGetKind(heap, stack[Len(stack) - 1].h, "Class").some
                         THEN [heap EXCEPT
                                  !.objects[stack[Len(stack) - 1].h + 1].methods =
                                      MapPut(@, GetName(Operand1), Top.h)]
                         ELSE heap
                    /\ stack' = Popped
                    /\ Continue("Method")
            /\ UNCHANGED <<globals, causality, function_chunks, open_upvalues>>

\* a field lookup that sees no field where the class has a method of the name
FieldOfUnlessMethod(instance, name) ==
    IF MapHas(instance.fields, name) /\ ~MapHas(HeapGet(heap, instance.class).methods, name)
    THEN Some(instance.fields[name]) ELSE None

\* `instance.fields.borrow().get(&name).cloned()`
FieldOf(instance, name) ==
    IF MapHas(instance.fields, name) THEN Some(instance.fields[name]) ELSE None

\* the method `name` of the class of an instance, as Option<Handle>
MethodOf(h, instance, name) ==
    IF MapHas(HeapGet(h, instance.class).methods, name)
    THEN Some(HeapGet(h, instance.class).methods[name]) ELSE None

\* GetProperty on a method: alloc_bound_method, pop the instance, push
BindMethod(a) ==
    /\ heap' = a[1]
    /\ stack' = Append(Popped, BoundMethodV(a[2]))

\* OpCode::GetProperty
OpGetProperty ==
    /\ Dispatch("GetProperty")
    /\ IF Len(stack) = 0 THEN Panic("GetProperty")
       ELSE IF Top.t # "Instance"
       THEN /\ Throw("GetProperty", Error("RuntimeError", "Only instances have properties."))
            /\ frames' = Advance(2)
            /\ UNCHANGED <<stack, globals, causality, function_chunks, heap,
                           open_upvalues>>
       ELSE IF ~HeapGetKind(heap, Top.h, "Instance").some THEN Panic("GetProperty")
       ELSE /\ frames' = Advance(2)
            /\ IF FieldOf(HeapGet(heap, Top.h), GetName(Operand1)).some
               THEN /\ stack' = Append(Popped,
                                       FieldOf(HeapGet(heap, Top.h), GetName(Operand1)).v)
                    /\ Continue("GetProperty")
                    /\ UNCHANGED heap
               ELSE IF ~HeapGetKind(heap, HeapGet(heap, Top.h).class, "Class").some
               THEN /\ status' = "panic"
                    /\ gc_done' = FALSE /\ last' = "GetProperty"
                    /\ UNCHANGED <<stack, heap, result, runs>>
               ELSE IF MethodOf(heap, HeapGet(heap, Top.h), GetName(Operand1)).some
               THEN /\ BindMethod(Alloc(heap,
                          BoundMethodObj(Top, MethodOf(heap, HeapGet(heap, Top.h),
                                                       GetName(Operand1)).v)))
                    /\ Continue("GetProperty")
               ELSE /\ Throw("GetProperty", Error("UndefinedProperty", GetName(Operand1)))
                    /\ UNCHANGED <<stack, heap>>
            /\ UNCHANGED <<globals, causality, function_chunks, open_upvalues>>

\* OpCode::SetProperty
OpSetProperty ==
    /\ Dispatch("SetProperty")
    /\ IF Len(stack) < 2 THEN Panic("SetProperty")
       ELSE IF stack[Len(stack) - 1].t # "Instance"
       THEN /\ Throw("SetProperty", Error("RuntimeError", "Only instances have properties."))
            /\ frames' = Advance(2)
            /\ stack' = Popped
            /\ UNCHANGED <<globals, causality, function_chunks, heap, open_upvalues>>
       ELSE IF ~HeapGetKind(heap, stack[Len(stack) - 1].h, "Instance").some
       THEN Panic("SetProperty")
       ELSE /\ heap' = [heap EXCEPT !.objects[stack[Len(stack) - 1].h + 1].fields =
                                       MapPut(@, GetName(Operand1), Top)]
            /\ stack' = Append(SubSeq(stack, 1, Len(stack) - 2), Top)
            /\ frames' = Advance(2)
            /\ Continue("SetProperty")
            /\ UNCHANGED <<globals, causality, function_chunks, open_upvalues>>

\* one step of VM::execute
\* the dispatch of one instruction
Instruction ==
    \/ OpConstant \/ OpNil \/ OpTrue \/ OpFalse \/ OpPop
    \/ OpDefineGlobal \/ OpDefineState \/ OpGetGlobal
    \/ OpTransition \/ OpTransitionLocal \/ OpTransitionUpvalue
    \/ OpGetLocal \/ OpGetUpvalue \/ OpAdd \/ OpTime \/ OpWhy
    \/ OpSetLocal \/ OpGreater \/ OpIndex
    \/ OpJump \/ OpJumpIfFalse \/ OpJumpIfTrue \/ OpLoop
    \/ OpCallClosure \/ OpCallNative \/ OpCallClass \/ OpCallBoundMethod
    \/ OpReturn \/ OpClosure
    \/ OpClass \/ OpMethod \/ OpGetProperty \/ OpSetProperty

\* one turn of the loop of VM::execute: the GC check, then the dispatch
\* The host passes the source of ProgWide to run
HostRunWide ==
    /\ status \in {"idle", "done", "error"}
    /\ runs < MaxRuns
    /\ RunCompiled(Compile(ProgWide, heap))
    /\ runs' = runs + 1
    /\ gc_done' = FALSE
    /\ last' = "run"
    /\ UNCHANGED <<globals, causality, open_upvalues>>

Step ==
    \/ CollectGarbage
    \/ Instruction

\* the host runs programs through the compiler
Next ==
    \/ \E p \in 1..Len(Programs) : HostRun(p)
    \/ Step

Spec == Init /\ [][Next]_vars

\* a collection is due at the top of the next turn of the loop
GcDue == status = "running" /\ ~gc_done /\ ShouldCollect(heap)

\* VM::execute is a `loop` that goes from one instruction to the next without
\* yielding until it returns: an instruction that stays possible is dispatched
\* and a collection that stays due is run (weak fairness of CollectGarbage,
\* written with its enabling condition GcDue)
\* a host that runs ProgWide: the VM steps are those of the instructions that
\* the chunks of ProgWide hold
NextWide ==
    \/ HostRunWide
    \/ OpConstant \/ OpDefineGlobal \/ OpGetGlobal \/ OpGetLocal
    \/ OpClosure \/ OpCallClosure \/ OpGetUpvalue \/ OpReturn

SpecWide == Init /\ [][NextWide]_vars

SpecLive ==
    /\ Spec
    /\ WF_vars(Instruction)
    /\ ([]<>(~GcDue) \/ []<><<CollectGarbage>>_vars)

\* the host also hands VM::run chunks it assembled itself
NextHost ==
    \/ Next
    \/ \E k \in 1..Len(HostChunks) : HostRunChunk(k)
    \/ OpSetGlobal
    \/ HostClear

SpecHost == Init /\ [][NextHost]_vars

\* the host also uses the heap of the VM: interned strings, marks, collections
NextHeap ==
    \/ NextHost
    \/ \E s \in HostStrings : HostAllocString(s)
    \/ HostMark
    \/ HostCollectGarbage

SpecHeap == Init /\ [][NextHeap]_vars

(***************************************************************************)
(* Properties                                                              *)
(***************************************************************************)
\* the three transition opcodes
TransitionOps == {"Transition", "TransitionLocal", "TransitionUpvalue"}

\* the value an upvalue cell denotes over stack st
CellValue(h, st, handle) ==
    IF HeapGet(h, handle).location.open
    THEN st[HeapGet(h, handle).location.slot + 1]
    ELSE HeapGet(h, handle).location.value

\* the name operand of the transition about to execute
TransitionName == GetName(IF CurOp = "Transition" THEN Operand1 ELSE Operand2)

\* the value the target binding of the transition about to execute holds
TransitionOld ==
    CASE CurOp = "Transition" -> globals[GetName(Operand1)].value
      [] CurOp = "TransitionLocal" -> stack[Frame.slot + Operand1 + 1]
      [] CurOp = "TransitionUpvalue" -> CellValue(heap, stack, FrameUpvalue(Operand1))

\* the value that binding holds after the step
TransitionBindingAfter ==
    CASE CurOp = "Transition" -> globals'[GetName(Operand1)].value
      [] CurOp = "TransitionLocal" -> stack'[Frame.slot + Operand1 + 1]
      [] CurOp = "TransitionUpvalue" -> CellValue(heap', stack', FrameUpvalue(Operand1))

\* C1: every transition opcode (Transition, TransitionLocal, TransitionUpvalue)
\* that executes successfully appends exactly one event to the causality log,
\* whose variable is the operand name, whose old value is the value the target
\* binding held just before and whose new value is the popped value; the binding
\* holds the new value afterwards and the logical clock has advanced by one.
C1_TransitionRecordsOneEvent ==
    [][(status = "running" /\ status' = "running" /\ last' \in TransitionOps)
        => /\ Len(causality'.events) = Len(causality.events) + 1
           /\ SubSeq(causality'.events, 1, Len(causality.events)) = causality.events
           /\ causality'.events[Len(causality'.events)].variable = TransitionName
           /\ causality'.events[Len(causality'.events)].old_value = TransitionOld
           /\ causality'.events[Len(causality'.events)].new_value = Top
           /\ Len(History(causality', TransitionName))
                 = Len(History(causality, TransitionName)) + 1
           /\ TransitionBindingAfter = Top
           /\ CurrentTime(causality') = CurrentTime(causality) + 1
           /\ causality'.events[Len(causality'.events)].timestamp
                 = CurrentTime(causality')]_vars

\* C1 witness: a captured counter was advanced through a closed cell (the second
\* event of `i` starts from 1) and the transition recorded it
C1_Witness ==
    /\ last = "TransitionUpvalue"
    /\ status = "running"
    /\ Len(History(causality, "i")) >= 2
    /\ History(causality, "i")[2].old_value = Number(1)
    /\ History(causality, "i")[2].new_value = Number(2)

\* C2: for every name with a history, each event's old value is the new value
\* of the event before it in that name's history.
C2_HistoryChained ==
    \A v \in DOMAIN causality.by_variable :
        \A i \in 2..Len(History(causality, v)) :
            History(causality, v)[i].old_value = History(causality, v)[i - 1].new_value

\* C3: Transition or SetGlobal on an existing global that is not a state binding
\* fails with ImmutableVariable and leaves bindings, log and clock unchanged; on
\* an undefined name it fails with UndefinedVariable and records no event.
C3_GlobalWriteRejected ==
    [][(status = "running" /\ last' \in {"Transition", "SetGlobal"})
        => /\ (MapHas(globals, GetName(Operand1)) /\ ~globals[GetName(Operand1)].is_state)
                => /\ status' = "error"
                   /\ result'.kind = "ImmutableVariable"
                   /\ result'.arg = GetName(Operand1)
                   /\ globals' = globals
                   /\ causality' = causality
           /\ ~MapHas(globals, GetName(Operand1))
                => /\ status' = "error"
                   /\ result'.kind = "UndefinedVariable"
                   /\ result'.arg = GetName(Operand1)
                   /\ globals' = globals
                   /\ causality' = causality]_vars

\* C3 witness: SetGlobal was refused on the immutable global x
C3_Witness ==
    /\ last = "SetGlobal"
    /\ status = "error"
    /\ result.kind = "ImmutableVariable"
    /\ MapHas(globals, "x") /\ ~globals["x"].is_state
    /\ globals["x"].value = Number(1)

\* names the programs declare with `let` only, captured by a nested function
ImmutableCaptured == {"k"}

\* C4: a transition in a nested function on a captured variable that the
\* enclosing function declared immutable fails with ImmutableVariable, leaving
\* the cell unchanged and recording no event.
C4_CapturedImmutableRejected ==
    [][(status = "running" /\ last' = "TransitionUpvalue"
          /\ GetName(Operand2) \in ImmutableCaptured)
        => /\ status' = "error"
           /\ result'.kind = "ImmutableVariable"
           /\ causality' = causality
           /\ CellValue(heap', stack', FrameUpvalue(Operand1))
                 = CellValue(heap, stack, FrameUpvalue(Operand1))]_vars

\* handles of the allocated objects of a kind
HandlesOf(h, kind) == {x \in 0..(Len(h.objects) - 1) : h.objects[x + 1].kind = kind}

\* upvalue cells held by some allocated closure
HeldCells(h) ==
    UNION {RangeOfSeq(h.objects[c + 1].upvalues) : c \in HandlesOf(h, "Closure")}

\* the cell is an upvalue that is open
IsOpenCell(h, x) == HeapGet(h, x).kind = "Upvalue" /\ HeapGet(h, x).location.open

\* C5: closures capturing the same local of one activation hold the same upvalue
\* cell: no two different cells held by closures are open at the same stack slot.
C5_OneCellPerLocal ==
    \A x, y \in HeldCells(heap) :
        (IsOpenCell(heap, x) /\ IsOpenCell(heap, y)
            /\ HeapGet(heap, x).location.slot = HeapGet(heap, y).location.slot)
        => x = y

\* C6: a Return that pops the frame with base slot s (and does not panic) turns
\* every upvalue that is open at an index >= s into a closed one holding the
\* value of that slot.
C6_ReturnClosesUpvalues ==
    [][(status = "running" /\ last' = "Return" /\ status' # "panic")
        => \A x \in HandlesOf(heap, "Upvalue") :
              (IsOpenCell(heap, x) /\ HeapGet(heap, x).location.slot >= Frame.slot)
              => /\ HeapGet(heap, x).location.slot < Len(stack)
                 /\ HeapGet(heap', x).kind = "Upvalue"
                 /\ ~HeapGet(heap', x).location.open
                 /\ HeapGet(heap', x).location.value
                       = stack[HeapGet(heap, x).location.slot + 1]]_vars

\* the references the collector is to follow from an object
ReferencesOf(o) ==
    CASE o.kind = "Array" -> SeqChildren(o.items)
      [] o.kind = "Closure" -> {o.function} \cup RangeOfSeq(o.upvalues)
      [] o.kind = "Upvalue" ->
            IF o.location.open THEN {} ELSE RangeOfSeq(ValueChildren(o.location.value))
      [] o.kind = "Class" -> {o.methods[k] : k \in DOMAIN o.methods}
      [] o.kind = "Instance" -> {o.class} \cup MapChildren(o.fields)
      [] o.kind = "BoundMethod" -> RangeOfSeq(ValueChildren(o.receiver)) \cup {o.method}
      [] OTHER -> {}

\* allocated handles among hs
Allocated(h, hs) == {x \in hs : HeapGet(h, x).kind # "None"}

\* the allocated objects reachable from the handles `seen`
RECURSIVE ReachableFrom(_, _)
ReachableFrom(h, seen) ==
    IF Allocated(h, UNION {ReferencesOf(HeapGet(h, x)) : x \in seen}) \subseteq seen
    THEN seen
    ELSE ReachableFrom(h, seen \cup Allocated(h, UNION {ReferencesOf(HeapGet(h, x)) :
                                                          x \in seen}))

\* handles held by stack values and global binding values
ValueRoots ==
    SeqChildren(stack)
      \cup UNION {RangeOfSeq(ValueChildren(globals[n].value)) : n \in DOMAIN globals}

\* the objects reachable from the stack and the globals
Live == ReachableFrom(heap, Allocated(heap, ValueRoots))

\* C7: every open cell reachable from a live closure points below the top of
\* the stack.
C7_OpenCellsInsideStack ==
    \A c \in Live :
        HeapGet(heap, c).kind = "Closure"
        => \A x \in RangeOfSeq(HeapGet(heap, c).upvalues) :
              IsOpenCell(heap, x) => HeapGet(heap, x).location.slot < Len(stack)

\* C8: a collection keeps every object reachable from the stack values and the
\* global binding values (through array elements, a closure's function and
\* upvalues, closed upvalue values, class methods, an instance's class and
\* fields, a bound method's receiver and method) allocated under the same handle
\* with unchanged contents.
C8_CollectKeepsReachable ==
    [][(status = "running" /\ last' = "gc" /\ status' = "running")
        => \A x \in Live : HeapGet(heap', x) = HeapGet(heap, x)]_vars

\* C8 witness: a collection has run while a global held a bound method whose
\* receiver is an instance with a field, all of them still allocated
C8_Witness ==
    /\ last = "gc"
    /\ status = "running"
    /\ \E n \in DOMAIN globals :
          /\ globals[n].value.t = "BoundMethod"
          /\ HeapGet(heap, globals[n].value.h).kind = "BoundMethod"
          /\ HeapGet(heap, HeapGet(heap, globals[n].value.h).method).kind = "Closure"
          /\ HeapGet(heap, HeapGet(heap, globals[n].value.h).receiver.h).kind = "Instance"
          /\ MapHas(HeapGet(heap, HeapGet(heap, globals[n].value.h).receiver.h).fields, "v")

\* function prototypes in the constant pools of the chunks on the call stack
FramePrototypes ==
    UNION {{frames[i].chunk.constants[j].h :
                j \in {j \in 1..Len(frames[i].chunk.constants) :
                          frames[i].chunk.constants[j].t = "Function"}} :
           i \in 1..Len(frames)}

\* C9: a function prototype referenced from the constant pool of a chunk that
\* is executing survives every collection.
C9_PrototypesSurvive ==
    [][(status = "running" /\ last' = "gc")
        => \A x \in FramePrototypes :
              HeapGet(heap, x).kind = "Function" => HeapGet(heap', x) = HeapGet(heap, x)]_vars

\* C10: for every global state binding with a history, value_at at the current
\* time is the current value of the global.
C10_ReplayMatchesGlobal ==
    \A v \in DOMAIN globals :
        (globals[v].is_state /\ Len(History(causality, v)) > 0)
        => ValueAt(causality, v, CurrentTime(causality)) = Some(globals[v].value)

\* C11: the logical time is the number of mutations recorded so far: a step
\* raises it by one exactly when it is a transition opcode that executed
\* successfully, every other step (a failing opcode, any other opcode, the
\* collector, a new run) leaves it alone, it equals the number of events in the
\* log, and time() pushes it.
C11_TimeCountsTransitions ==
    [][/\ causality'.clock = Len(causality'.events)
       /\ IF last' \in TransitionOps /\ status' = "running"
          THEN causality'.clock = causality.clock + 1
          ELSE causality'.clock = causality.clock
       /\ (last' = "Time" /\ status' = "running")
             => stack'[Len(stack')] = Number(Len(causality.events))]_vars

\* C11: time() was evaluated after two transitions and pushed 2
C11_Witness ==
    /\ last = "Time"
    /\ Len(causality.events) = 2
    /\ Top = Number(2)

\* timestamps of a sequence of events are strictly increasing
StrictlyIncreasing(events) ==
    \A i \in 1..(Len(events) - 1) : events[i].timestamp < events[i + 1].timestamp

\* C12: after every step the timestamps are strictly increasing along the
\* whole log and along history(v) of every variable v, and no step other than
\* an explicit clear lowers the logical clock.
C12_ClockMonotonic ==
    [][/\ StrictlyIncreasing(causality'.events)
       /\ \A v \in DOMAIN causality'.by_variable :
             StrictlyIncreasing(History(causality', v))
       /\ last' # "clear" => causality'.clock >= causality.clock]_vars

\* C12: a log that was cleared and has grown again: the global x holds the 6
\* that only a transition gives it, the log has no event for x, and another
\* variable has two events in its history
C12_Witness ==
    /\ MapHas(globals, "x") /\ globals["x"].value = Number(6)
    /\ ~MapHas(causality.by_variable, "x")
    /\ \E v \in DOMAIN causality.by_variable : Len(History(causality, v)) >= 2

\* slot 0 of frame f over stack st holds the callee closure of f or a receiver
HoldsCallee(f, st) ==
    /\ f.slot < Len(st)
    /\ \/ st[f.slot + 1] = ClosureV(f.closure)
       \/ st[f.slot + 1].t = "Instance"

\* C13: while a run executes, for every call frame on the frame stack, the
\* script frame pushed by run included (also on a VM that completed an earlier
\* run), stack[frame.slot] holds the frame's own callee closure or its bound
\* receiver; a frame pushed by Call has slot = stack length - argc - 1.
C13_SlotZeroHoldsCallee ==
    [][/\ status' = "running"
             => \A i \in 1..Len(frames') : HoldsCallee(frames'[i], stack')
       /\ (last' = "Call" /\ Len(frames') = Len(frames) + 1)
             => frames'[Len(frames')].slot = Len(stack) - OperandByte - 1]_vars

\* C14 as stated: after any Return that completes, the stack length is
\* frame.slot + 1 of the popped frame and the returned value is on top.
C14_AnyReturnLeavesResultOnTop ==
    [][(last' = "Return" /\ status' \in {"running", "done"})
        => /\ Len(stack') = Frame.slot + 1
           /\ stack'[Len(stack')] = Top]_vars

\* C14 amended: a Return into a caller frame (the frame stack is not empty
\* afterwards) truncates the stack to frame.slot of the popped frame and pushes
\* the returned value: when the frame's slot lies within the stack, as for
\* every frame pushed by a Call of the current run, the length is then
\* frame.slot + 1 with the returned value on top and the values below
\* frame.slot untouched; a frame whose slot lies beyond the stack (a frame left
\* by an earlier failed run) only has its operand replaced by the result. The
\* Return that pops the last frame hands the value to the host and leaves the
\* rest of the stack as it was.
C14_ReturnToCallerLeavesResultOnTop ==
    [][/\ (last' = "Return" /\ status' = "running")
          => /\ Len(frames') >= 1
             /\ stack'[Len(stack')] = Top
             /\ Len(stack) > Frame.slot
                   => /\ Len(stack') = Frame.slot + 1
                      /\ SubSeq(stack', 1, Frame.slot) = SubSeq(stack, 1, Frame.slot)
             /\ Len(stack) <= Frame.slot => Len(stack') = Len(stack)
       /\ (last' = "Return" /\ status' = "done")
          => /\ Len(frames') = 0
             /\ stack' = Popped
             /\ result' = Top]_vars

\* C14: f of `fn f() { state n = 0; n -> n + 1; return n }` returned 1 to the
\* script: callee, local n and the temporary are gone
C14_Witness ==
    /\ last = "Return" /\ status = "running"
    /\ Len(frames) = 1
    /\ Len(stack) = 2 /\ stack[1].t = "Closure" /\ Top = Number(1)

\* the parameter count of the function of the closure about to be called
CalleeParams == Len(HeapGet(heap, HeapGet(heap, Callee.h).function).params)

\* C15: the frame stack never holds more than FRAMES_MAX frames, and a call
\* of a closure (with the right number of arguments) made while FRAMES_MAX
\* frames are active fails with StackOverflow and pushes no frame.
C15_FramesBounded ==
    [][/\ Len(frames') <= FRAMES_MAX
       /\ (/\ last' = "Call" /\ status' # "panic"
           /\ Len(frames) >= FRAMES_MAX
           /\ Callee.t = "Closure"
           /\ HeapGetKind(heap, Callee.h, "Closure").some
           /\ CalleeParams = OperandByte)
          => /\ status' = "error"
             /\ result'.kind = "StackOverflow"
             /\ Len(frames') = Len(frames)]_vars

\* the step returned WrongArity(expected, got) and pushed no frame
FailsWithWrongArity(expected, got) ==
    /\ status' = "error"
    /\ result'.kind = "WrongArity"
    /\ result'.arg = <<expected, got>>
    /\ frames' = Advance(1)

\* C16: a Call of a closure whose function takes a different number of
\* parameters, of a fixed-arity native with a different argument count, or of
\* a class without init with arguments, fails with WrongArity(expected, got)
\* and pushes no call frame.
C16_WrongArityRejected ==
    [][(last' = "Call" /\ status' # "panic" /\ Len(stack) > OperandByte)
        => /\ (/\ Callee.t = "Closure"
               /\ HeapGetKind(heap, Callee.h, "Closure").some
               /\ HeapGetKind(heap, HeapGet(heap, Callee.h).function, "Function").some
               /\ CalleeParams # OperandByte)
              => FailsWithWrongArity(CalleeParams, OperandByte)
           /\ (/\ Callee.t = "NativeFunction"
               /\ Callee.nat \in {"len", "str", "num", "type", "abs", "floor", "ceil",
                                  "round", "transitions", "min", "max", "snapshot"}
               /\ OperandByte # (IF Callee.nat \in {"min", "max"} THEN 2
                                 ELSE IF Callee.nat = "snapshot" THEN 0 ELSE 1))
              => FailsWithWrongArity(IF Callee.nat \in {"min", "max"} THEN 2
                                     ELSE IF Callee.nat = "snapshot" THEN 0 ELSE 1,
                                     OperandByte)
           /\ (/\ Callee.t = "Class"
               /\ ~MapHas(HeapGet(heap, Callee.h).methods, "init")
               /\ OperandByte # 0)
              => FailsWithWrongArity(0, OperandByte)]_vars

\* C16: a closure of a function without parameters was called with one
\* argument and the run ended with WrongArity(0, 1)
C16_Witness ==
    /\ last = "Call" /\ status = "error"
    /\ result.kind = "WrongArity" /\ result.arg = <<0, 1>>
    /\ stack[Len(stack) - 1].t = "Closure"

\* the value the host holds is an error
IsError(r) == "kind" \in DOMAIN r

\* C17: an opcode that signals an error ends the run with that error as the
\* run's result, and once a run has ended with an error no opcode and no
\* collection executes: the only step left is the host starting another run.
C17_ErrorEndsRun ==
    [][/\ IsError(result') <=> status' = "error"
       /\ status = "error" => last' = "run"
       /\ (status = "running" /\ status' = "error")
             => /\ IsError(result')
                /\ runs' = runs]_vars

\* C17: the first run ended at a Transition with ImmutableVariable
C17_Witness ==
    /\ status = "error" /\ last = "Transition" /\ runs = 1
    /\ result.kind = "ImmutableVariable"

\* the byte count alloc added for object o: alloc_class and alloc_instance
\* allocate with empty maps, every other object keeps its size
SizeAtAlloc(o) ==
    SizeBytes(CASE o.kind = "Class" -> [o EXCEPT !.methods = EmptyMap]
                [] o.kind = "Instance" -> [o EXCEPT !.fields = EmptyMap]
                [] OTHER -> o)

RECURSIVE SumSizesAtAlloc(_, _)
SumSizesAtAlloc(objects, i) ==
    IF i > Len(objects) THEN 0
    ELSE SizeAtAlloc(objects[i]) + SumSizesAtAlloc(objects, i + 1)

\* C18: bytes_allocated never underflows and is the sum, over the objects
\* now allocated, of the byte counts that were added when they were allocated:
\* a sweep subtracts for each object what alloc added for it, also when the
\* object got fields or methods in between.
C18_SweepSubtractsAllocatedSize ==
    /\ heap.bytes_allocated >= 0
    /\ status # "panic" => heap.bytes_allocated = SumSizesAtAlloc(heap.objects, 1)

\* C19: a host that holds the handle alloc_string(s) returned, and whose
\* String object is still allocated (it was never swept, or survived every
\* collection because it was marked), gets the same handle from the next
\* alloc_string(s), and that call allocates nothing.
C19_InternedStringReused ==
    [][(/\ last' = "alloc_string"
        /\ HoldsString /\ result'.s = result.s
        /\ HeapGet(heap, result.h) = [kind |-> "String", s |-> result.s])
        => /\ result'.h = result.h
           /\ heap' = heap]_vars

\* C19: the host interned "a" and "b", kept "a" marked over a collection
\* that swept "b" and the garbage of the runs, and has asked for "a" again
C19_Witness ==
    /\ last = "alloc_string"
    /\ HoldsString /\ result.s = "a"
    /\ MapHas(heap.interned_strings, "a") /\ ~MapHas(heap.interned_strings, "b")
    /\ \E i \in 1..Len(heap.free_list) : heap.free_list[i] > result.h

\* v is an instance of class c that the step has just allocated
IsNewInstanceOf(v, c) ==
    /\ v.t = "Instance"
    /\ HeapGet(heap, v.h).kind = "None"
    /\ HeapGet(heap', v.h) = InstanceObj(c, EmptyMap)

\* the running frame executes a function called `init` (in the programs of
\* the model only class calls start such a frame)
InInit ==
    /\ HeapGet(heap, Frame.closure).kind = "Closure"
    /\ HeapGet(heap, HeapGet(heap, Frame.closure).function).kind = "Function"
    /\ HeapGet(heap, HeapGet(heap, Frame.closure).function).name = "init"

\* C20: a call of a class yields a new instance of that class: without init
\* a zero-argument call replaces the class on the stack by the new instance;
\* with init the new instance takes the callee slot of the init frame, and the
\* value init's frame leaves to the caller is that instance, whatever
\* statements the body of init contains.
C20_ClassCallYieldsInstance ==
    [][/\ (/\ last' = "Call" /\ status' = "running"
           /\ Callee.t = "Class" /\ Len(frames') = Len(frames))
          => /\ Len(stack') = Len(stack)
             /\ IsNewInstanceOf(stack'[Len(stack')], Callee.h)
       /\ (/\ last' = "Call" /\ status' = "running"
           /\ Callee.t = "Class" /\ Len(frames') = Len(frames) + 1)
          => IsNewInstanceOf(stack'[frames'[Len(frames')].slot + 1], Callee.h)
       /\ (last' = "Return" /\ status' = "running" /\ InInit)
          => /\ stack[Frame.slot + 1].t = "Instance"
             /\ stack'[Len(stack')] = stack[Frame.slot + 1]]_vars

\* C21: upvalue cells created by different activations of one enclosing
\* function are distinct storage: a transition of a captured variable made
\* through a closure leaves alone the value every other closure of the same
\* function prototype (the product of another activation) reads through the
\* cell it holds at the same index.
C21_ActivationsHaveOwnCells ==
    [][(status = "running" /\ last' = "TransitionUpvalue" /\ status' = "running")
        => \A c \in HandlesOf(heap, "Closure") :
              (/\ c # Frame.closure
               /\ HeapGet(heap, c).function = HeapGet(heap, Frame.closure).function
               /\ Len(HeapGet(heap, c).upvalues) > Operand1)
              => /\ HeapGet(heap, c).upvalues[Operand1 + 1] # FrameUpvalue(Operand1)
                 /\ ReadUpvalue(heap', stack', HeapGet(heap, c).upvalues[Operand1 + 1])
                       = ReadUpvalue(heap, stack, HeapGet(heap, c).upvalues[Operand1 + 1])]_vars

\* C22: reading a method from an instance binds that instance as receiver;
\* calling the bound method starts a frame whose slot 0 holds that receiver
\* (below it the stack is untouched); and a field write changes the fields of
\* the instance it is applied to and of no other instance.
C22_BoundMethodRunsOnReceiver ==
    [][/\ (/\ last' = "GetProperty" /\ status' = "running"
           /\ stack'[Len(stack')].t = "BoundMethod")
          => /\ Top.t = "Instance"
             /\ HeapGet(heap', stack'[Len(stack')].h).receiver = Top
       /\ (/\ last' = "Call" /\ status' = "running"
           /\ Len(stack) > OperandByte /\ Callee.t = "BoundMethod")
          => /\ Len(frames') = Len(frames) + 1
             /\ frames'[Len(frames')].slot = Len(stack) - OperandByte - 1
             /\ stack'[frames'[Len(frames')].slot + 1] = HeapGet(heap, Callee.h).receiver
             /\ HeapGet(heap, Callee.h).receiver.t = "Instance"
             /\ \A i \in 1..Len(stack) :
                   i # Len(stack) - OperandByte => stack'[i] = stack[i]
       /\ (last' = "SetProperty" /\ status' = "running")
          => \A x \in HandlesOf(heap, "Instance") :
                x # stack[Len(stack) - 1].h => HeapGet(heap', x) = HeapGet(heap, x)]_vars

\* C22: of two instances of one class, p.set(5) changed the field of p only and
\* q.get() has returned the 2 that q was built with
C22_Witness ==
    /\ status = "done" /\ last = "Return"
    /\ result = Number(2)
    /\ MapHas(globals, "p") /\ MapHas(globals, "q")
    /\ globals["p"].value.t = "Instance" /\ globals["q"].value.t = "Instance"
    /\ globals["p"].value.h # globals["q"].value.h
    /\ HeapGet(heap, globals["p"].value.h).fields = [n \in {"v"} |-> Number(5)]
    /\ HeapGet(heap, globals["q"].value.h).fields = [n \in {"v"} |-> Number(2)]

\* the allocated objects no root of the collector reaches
Unreachable == Allocated(heap, 0..(Len(heap.objects) - 1))
                  \ ReachableFrom(heap, Allocated(heap, RootHandles))

\* number of occurrences of x in a sequence
Occurrences(s, x) == Cardinality({i \in 1..Len(s) : s[i] = x})

\* C23: one collection frees every object that no root (stack, globals,
\* constants of the registered chunks) reaches, whether or not other
\* unreachable objects refer to it: its slot is empty afterwards and its index
\* was pushed to the free list once.
C23_CycleFreedByOneCollection ==
    [][(status = "running" /\ last' = "gc" /\ status' = "running")
        => \A x \in Unreachable :
              /\ HeapGet(heap', x) = NoObject
              /\ Occurrences(heap'.free_list, x) = Occurrences(heap.free_list, x) + 1]_vars

\* C23: a collection has run after f() left behind an instance of P whose
\* field held a bound method of that instance: class P (with its method m) is
\* alive, no instance and no bound method is allocated, their slots are free
C23_Witness ==
    /\ last = "gc" /\ status = "running"
    /\ MapHas(globals, "P") /\ MapHas(globals, "f")
    /\ HeapGet(heap, globals["P"].value.h).kind = "Class"
    /\ MapHas(HeapGet(heap, globals["P"].value.h).methods, "m")
    /\ HandlesOf(heap, "Instance") = {}
    /\ HandlesOf(heap, "BoundMethod") = {}
    /\ Len(heap.free_list) >= 2

\* the line why() prints for the n-th event e of a history
ChainLine(n, e) ==
    "  " \o ToString(n) \o ". [t=" \o ToString(e.timestamp) \o "] "
       \o Display(e.old_value) \o " -> " \o Display(e.new_value) \o "\n"

\* the lines of the first n events of a history
RECURSIVE ChainLines(_, _)
ChainLines(history, n) ==
    IF n = 0 THEN "" ELSE ChainLines(history, n - 1) \o ChainLine(n, history[n])

\* C24: why(name) pushes the string that lists exactly the events of
\* history(name), in order and numbered from 1, each as `[t=T] OLD -> NEW` on
\* a line of its own under the header "Causality chain for 'NAME':", and the
\* string "No state history for 'NAME'" when the name has no events.
C24_WhyListsHistory ==
    [][(status = "running" /\ last' = "Why" /\ status' = "running")
        => /\ Len(stack') = Len(stack) + 1
           /\ stack'[Len(stack')].t = "String"
           /\ stack'[Len(stack')].s =
                 IF TransitionCount(causality, GetName(Operand1)) = 0
                 THEN "No state history for '" \o GetName(Operand1) \o "'"
                 ELSE "Causality chain for '" \o GetName(Operand1) \o "':\n"
                         \o ChainLines(History(causality, GetName(Operand1)),
                                       TransitionCount(causality, GetName(Operand1)))
           /\ causality' = causality]_vars

\* C24: why(x) was evaluated after x -> 10, y -> 2, x -> 20
C24_Witness ==
    /\ last = "Why" /\ status = "running"
    /\ Len(causality.events) = 3
    /\ Top = String("Causality chain for 'x':\n  1. [t=1] 0 -> 10\n  2. [t=3] 10 -> 20\n")

\* the first break ("Break") or continue ("Continue") of a statement list, in
\* source order, that no loop of its own function encloses; "None" without one
RECURSIVE FirstStray(_, _)
RECURSIVE FirstStrayIn(_, _)
FirstStrayIn(stmt, in_loop) ==
    CASE stmt.k = "Break" -> IF in_loop THEN "None" ELSE "Break"
      [] stmt.k = "Continue" -> IF in_loop THEN "None" ELSE "Continue"
      [] stmt.k = "Block" -> FirstStray(stmt.stmts, in_loop)
      [] stmt.k \in {"While", "For"} -> FirstStrayIn(stmt.body, TRUE)
      [] stmt.k = "If" ->
            IF FirstStrayIn(stmt.then_branch, in_loop) # "None"
            THEN FirstStrayIn(stmt.then_branch, in_loop)
            ELSE IF stmt.else_branch.some THEN FirstStrayIn(stmt.else_branch.v, in_loop)
            ELSE "None"
      [] stmt.k = "Function" -> FirstStray(stmt.body, FALSE)
      [] stmt.k = "Class" -> FirstStray(stmt.methods, FALSE)
      [] OTHER -> "None"
FirstStray(stmts, in_loop) ==
    IF Len(stmts) = 0 THEN "None"
    ELSE IF FirstStrayIn(stmts[1], in_loop) # "None" THEN FirstStrayIn(stmts[1], in_loop)
    ELSE FirstStray(Tail(stmts), in_loop)

\* C25: whenever the host may compile, a program whose first break or continue
\* outside a loop of its own function (one written in a function or method
\* body nested in a loop included) is a break fails to compile with
\* BreakOutsideLoop, and one where it is a continue with ContinueOutsideLoop.
C25_StrayBreakRejected ==
    status \in {"idle", "done", "error"}
    => \A p \in 1..Len(Programs) :
          /\ FirstStray(Programs[p], FALSE) = "Break"
                => Compile(Programs[p], heap).err = Some(Error("BreakOutsideLoop", <<>>))
          /\ FirstStray(Programs[p], FALSE) = "Continue"
                => Compile(Programs[p], heap).err
                      = Some(Error("ContinueOutsideLoop", <<>>))

\* C25: the second line the host handed to the VM was refused by the compiler
\* with BreakOutsideLoop and nothing of it ran
C25_Witness ==
    /\ status = "error" /\ last = "run" /\ runs = 2
    /\ result = Error("BreakOutsideLoop", <<>>)

\* the programs that transition a local declared without `state`, with its name
ImmutableLocals ==
    {<<ProgLetLocal, "x">>, <<ProgParam, "a">>, <<ProgLocalFn, "g">>,
     <<ProgLocalClass, "K">>, <<ProgForVar, "x">>}

\* C26: whenever the host may compile, a program that transitions a let local,
\* a parameter, a local function name, a local class name or a for-loop
\* variable fails to compile with ImmutableVariable of that name.
C26_LocalTransitionNeedsState ==
    status \in {"idle", "done", "error"}
    => \A pn \in ImmutableLocals :
          Compile(pn[1], heap).err = Some(Error("ImmutableVariable", pn[2]))

\* C26: the second line the host handed to the VM transitions a parameter and
\* was refused by the compiler with ImmutableVariable
C26_Witness ==
    /\ status = "error" /\ last = "run" /\ runs = 2
    /\ result = Error("ImmutableVariable", "a")

\* C27: a collection leaves in the open-upvalue list exactly the handles it
\* listed before whose objects the sweep did not free, in their order.
C27_OpenListKeepsSurvivors ==
    [][(last' \in {"gc", "collect"} /\ status' # "panic")
        => open_upvalues'
              = SelectSeq(open_upvalues, LAMBDA h : HeapGet(heap', h) # NoObject)]_vars

\* C28: whenever run has returned, with a value or with an error, no call
\* frame is left on the VM.
C28_NoFrameLeftAfterRun ==
    status \in {"done", "error"} => Len(frames) = 0

\* the functions declared at the top level of the programs
TopFunctions ==
    {Programs[p][i] : <<p, i>> \in
        {pi \in (1..Len(Programs)) \X (1..8) :
            pi[2] <= Len(Programs[pi[1]]) /\ Programs[pi[1]][pi[2]].k = "Function"}}

\* the compiler after the parameters and the first k body statements of fn
BodyPrefix(fn, k) ==
    CompileStmts(AddParams(PushFunction(NewCompiler(NewHeap), fn.name), fn.params),
                 SubSeq(fn.body, 1, k))

\* the code of the whole function fn
BodyCode(fn) ==
    Current(Emit(Emit(BodyPrefix(fn, Len(fn.body)), "Nil"), "Return")).chunk.code

\* the name of the function the current frame executes ("" when its closure
\* is no longer on the heap)
FrameFunction ==
    IF HeapGetKind(heap, Frame.closure, "Closure").some
    THEN IF HeapGetKind(heap, HeapGet(heap, Frame.closure).function, "Function").some
         THEN HeapGet(heap, HeapGet(heap, Frame.closure).function).name
         ELSE ""
    ELSE ""

\* C29: when a function is about to execute the first instruction of one of
\* its body statements (or of its implicit return), the stack above
\* frame.slot holds exactly the locals the compiler has declared there.
C29_StackHoldsDeclaredLocals ==
    (status = "running" /\ Len(frames) > 0)
    => \A fn \in {f \in TopFunctions : f.name = FrameFunction} :
          (~BodyPrefix(fn, Len(fn.body)).err.some /\ Frame.chunk.code = BodyCode(fn))
          => \A k \in 0..Len(fn.body) :
                Frame.ip = ChunkLen(BodyPrefix(fn, k))
                => Len(stack) - Frame.slot = Len(Current(BodyPrefix(fn, k)).locals)

\* C30: every run, a run that executes a for loop whose body executes continue
\* included, comes to its end: run returns a value or an error (or panics).
C30_ForLoopComesToItsEnd ==
    [](status = "running" => <>(status # "running"))

\* C33: a step never rebinds or changes a global that is bound with
\* is_state = false.
C33_ImmutableGlobalNeverChanges ==
    [][\A n \in DOMAIN globals :
          ~globals[n].is_state
          => /\ n \in DOMAIN globals'
             /\ globals'[n].value = globals[n].value]_vars

\* C34: a collection in a run starts only when bytes_allocated > next_gc and
\* leaves next_gc = max(2 * bytes_allocated, 1 MiB), so that no collection is
\* due right after it; no other step frees a slot or moves the threshold.
C34_ThresholdAfterCollection ==
    [][/\ (last' = "gc" /\ status' # "panic")
          => /\ ShouldCollect(heap)
             /\ heap'.next_gc = UMax(heap'.bytes_allocated * 2, 1024 * 1024)
             /\ ~ShouldCollect(heap')
       /\ (heap'.next_gc # heap.next_gc \/ Len(heap'.free_list) > Len(heap.free_list))
          => last' = "gc"]_vars

\* C34: a collection has just run that left more than half a MiB allocated, so
\* the threshold is twice the allocated bytes
C34_Witness ==
    /\ last = "gc" /\ status = "running"
    /\ heap.next_gc = 2 * heap.bytes_allocated
    /\ heap.next_gc > 1024 * 1024

\* the free list of h holds each index of an empty slot once and no other
FreeListExact(h) ==
    /\ \A k \in 1..Len(h.free_list) : h.free_list[k] \in 0..(Len(h.objects) - 1)
    /\ \A i \in 0..(Len(h.objects) - 1) :
          Occurrences(h.free_list, i) = (IF h.objects[i + 1] = NoObject THEN 1 ELSE 0)

\* C35: after every step of the VM the free list
\* holds exactly the indexes of the empty slots, each once, and the object
\* vector has grown only if the allocations of the step used up the free list.
C35_FreeListIsTheEmptySlots ==
    [][/\ FreeListExact(heap')
       /\ Len(heap'.objects) > Len(heap.objects) => Len(heap'.free_list) = 0]_vars

\* C35: a call has just allocated an array or an instance in a slot below the
\* end of the object vector, one that a collection had emptied, and other
\* slots are still free
C35_Witness ==
    /\ last = "Call" /\ status = "running"
    /\ Len(stack) > 0
    /\ Top.t \in {"Array", "Instance"}
    /\ Top.h < Len(heap.objects) - 1
    /\ Len(heap.free_list) > 0

\* the handles pushed by one pass of the loop that leads from h to next, then
\* those of the passes that follow
RECURSIVE PushedBy(_, _)
PushedBy(h, next) ==
    SubSeq(next.grey_stack, Len(h.grey_stack), Len(next.grey_stack))
       \o (IF Len(next.grey_stack) = 0 THEN <<>> ELSE PushedBy(next, TraceStep(next)))

\* no handle occurs twice in the sequence
NoRepeat(pushed) ==
    \A i, j \in 1..Len(pushed) : pushed[i] = pushed[j] => i = j

\* every live child of an object marked in traced is marked in traced
MarksClosed(h, traced) ==
    \A x \in traced.marked :
       \A c \in ObjectChildren(HeapGet(h, x)) :
          HeapGet(h, c).kind # "None" => c \in traced.marked

\* the handles that trace_references pushes on the grey stack when it starts
\* from h, in the order of the pushes
RECURSIVE TracePushes(_)
TracePushes(h) ==
    IF Len(h.grey_stack) = 0 THEN <<>>
    ELSE PushedBy(h, TraceStep(h))

\* the three properties of a trace that starts from the heap rooted after
\* mark_roots
TraceSound(h, rooted) ==
    /\ Len(TraceReferences(rooted).grey_stack) = 0
    /\ NoRepeat(rooted.grey_stack \o TracePushes(rooted))
    /\ MarksClosed(h, TraceReferences(rooted))

\* object x of the heap is reached from one of its own children
OnCycle(x) ==
    /\ HeapGet(heap, x).kind # "None"
    /\ x \in ReachableFrom(heap, Allocated(heap, ObjectChildren(HeapGet(heap, x))))

\* C36: in every collection of the VM trace_references comes to an end from
\* the roots with the grey stack empty, no handle is pushed grey twice (by
\* mark_roots or by the loop), and every live child of a marked object is
\* marked at the end.
C36_TraceTerminatesAndClosesTheMarks ==
    [][(last' = "gc") => TraceSound(heap, MarkRoots(heap))]_vars

\* C36: a collection has just traced a cycle of objects held by a root and
\* kept it
C36_Witness ==
    /\ last = "gc" /\ status = "running"
    /\ \E x \in Allocated(heap, RootHandles) : OnCycle(x)

\* C40: in every state of the log, also after the host cleared it and across
\* runs, the event at index k has id k and timestamp k + 1, the ids indexed
\* under a variable increase and refer to events of that variable, and
\* history(variable) is the list of that variable's events in recording order.
C40_LogIsIndexedInOrder ==
    /\ \A i \in 1..Len(causality.events) :
          /\ causality.events[i].id = i - 1
          /\ causality.events[i].timestamp = i
    /\ \A v \in DOMAIN causality.by_variable :
          /\ \A k \in 1..Len(causality.by_variable[v]) :
                /\ causality.by_variable[v][k] < Len(causality.events)
                /\ causality.events[causality.by_variable[v][k] + 1].variable = v
          /\ \A k, l \in 1..Len(causality.by_variable[v]) :
                k < l => causality.by_variable[v][k] < causality.by_variable[v][l]
    /\ \A v \in {causality.events[i].variable : i \in 1..Len(causality.events)}
                 \cup DOMAIN causality.by_variable :
          History(causality, v) = SelectSeq(causality.events, LAMBDA e : e.variable = v)

\* C40: a transition has just been recorded in a log that holds events of two
\* variables, those of one of them apart from each other
C40_Witness ==
    /\ last = "Transition"
    /\ \E v \in DOMAIN causality.by_variable :
          /\ Len(causality.by_variable[v]) >= 2
          /\ causality.by_variable[v][2] > causality.by_variable[v][1] + 1

\* the events of variable v in the log, in recording order
EventsNamed(v) == SelectSeq(causality.events, LAMBDA e : e.variable = v)

\* indexes of the events of v with a timestamp at or before t
UpTo(v, t) == {i \in 1..Len(EventsNamed(v)) : EventsNamed(v)[i].timestamp <= t}

\* names asked of value_at: every recorded variable and one without history
AskedNames == {causality.events[i].variable : i \in 1..Len(causality.events)} \cup {"zz"}

\* C38: for every name and timestamp value_at gives the new value of the last
\* event of the name at or before the timestamp, the old value of the name's
\* first event when all its events are later, and none when the name has no
\* history.
C38_ValueAtIsLastEventUpTo ==
    \A v \in AskedNames : \A t \in 0..(Len(causality.events) + 1) :
       ValueAt(causality, v, t) =
          (IF Len(EventsNamed(v)) = 0 THEN None
           ELSE IF UpTo(v, t) # {}
                THEN Some(EventsNamed(v)[CHOOSE i \in UpTo(v, t) :
                                           \A j \in UpTo(v, t) : j <= i].new_value)
                ELSE Some(EventsNamed(v)[1].old_value))

\* C38: the log holds a variable whose first event comes after another event
\* and a variable with an event of another variable between two of its own,
\* so that value_at is asked for times before, between and after the events
C38_Witness ==
    /\ \E v \in AskedNames :
          Len(EventsNamed(v)) > 0 /\ EventsNamed(v)[1].timestamp > 1
    /\ \E v \in AskedNames :
          /\ Len(EventsNamed(v)) >= 2
          /\ EventsNamed(v)[2].timestamp > EventsNamed(v)[1].timestamp + 1
          /\ ValueAt(causality, v, EventsNamed(v)[1].timestamp + 1)
                = Some(EventsNamed(v)[1].new_value)

\* C37: a GetProperty step on an instance puts the instance's own field of
\* the name in the place of the receiver when the field is set, also when the
\* class has a method of that name; otherwise a new bound method of the
\* receiver and the class's method; otherwise it fails with
\* UndefinedProperty. On success the rest of the stack is as it was.
C37_FieldThenMethodThenError ==
    [][(last' = "GetProperty" /\ Len(stack) > 0 /\ Top.t = "Instance")
       => IF MapHas(HeapGet(heap, Top.h).fields, GetName(Operand1))
          THEN /\ status' = "running"
               /\ stack' = Append(Popped, HeapGet(heap, Top.h).fields[GetName(Operand1)])
          ELSE IF MapHas(HeapGet(heap, HeapGet(heap, Top.h).class).methods,
                         GetName(Operand1))
          THEN /\ status' = "running"
               /\ Len(stack') = Len(stack)
               /\ SubSeq(stack', 1, Len(stack) - 1) = Popped
               /\ stack'[Len(stack')].t = "BoundMethod"
               /\ HeapGet(heap, stack'[Len(stack')].h).kind = "None"
               /\ HeapGet(heap', stack'[Len(stack')].h)
                     = BoundMethodObj(Top, HeapGet(heap, HeapGet(heap, Top.h).class)
                                             .methods[GetName(Operand1)])
          ELSE /\ status' = "error"
               /\ result' = Error("UndefinedProperty", GetName(Operand1))]_vars

\* C37: a GetProperty has just put a field of the receiver on the stack whose
\* name is also the name of a method of the receiver's class
C37_Witness ==
    /\ last = "GetProperty" /\ status = "running"
    /\ Len(stack) > 0 /\ Top = Number(7)
    /\ \E x \in HandlesOf(heap, "Instance") :
          /\ MapHas(HeapGet(heap, x).fields, "m")
          /\ HeapGet(heap, x).fields["m"] = Top
          /\ MapHas(HeapGet(heap, HeapGet(heap, x).class).methods, "m")

\* statement stmt is an if or a while statement, or an expression statement
\* of an `and` or an `or`
Branches(stmt) ==
    \/ stmt.k \in {"If", "While"}
    \/ stmt.k = "Expr" /\ stmt.expr.k = "Logical"

\* C31: in the frame of a function of the programs, for each body statement
\* that is an if/else, a while or a logical expression: at its first
\* instruction and behind its last one the stack above frame.slot holds the
\* locals declared before the statement and nothing else (every path pops the
\* condition once); right after a JumpIfFalse or JumpIfTrue of the statement,
\* taken or not, it holds the condition in addition (the jump does not pop);
\* before the Pop that ends a logical expression statement it holds exactly
\* one value in addition.
C31_ConditionPoppedOnceOnEveryPath ==
    (status = "running" /\ Len(frames) > 0)
    => \A fn \in {f \in TopFunctions : f.name = FrameFunction} :
          (~BodyPrefix(fn, Len(fn.body)).err.some /\ Frame.chunk.code = BodyCode(fn))
          => \A k \in 1..Len(fn.body) :
                Branches(fn.body[k])
                => /\ Frame.ip \in {ChunkLen(BodyPrefix(fn, k - 1)),
                                     ChunkLen(BodyPrefix(fn, k))}
                      => Len(stack) - Frame.slot
                           = Len(Current(BodyPrefix(fn, k - 1)).locals)
                   /\ (/\ last \in {"JumpIfFalse", "JumpIfTrue"}
                       /\ Frame.ip > ChunkLen(BodyPrefix(fn, k - 1))
                       /\ Frame.ip < ChunkLen(BodyPrefix(fn, k)))
                      => Len(stack) - Frame.slot
                           = Len(Current(BodyPrefix(fn, k - 1)).locals) + 1
                   /\ (fn.body[k].k = "Expr"
                       /\ Frame.ip = ChunkLen(BodyPrefix(fn, k)) - 1)
                      => Len(stack) - Frame.slot
                           = Len(Current(BodyPrefix(fn, k - 1)).locals) + 1

\* the compiler where the jump of the condition of statement stmt has been
\* emitted, c being the compiler before the statement
AtCondition(c, stmt) ==
    CASE stmt.k = "If" -> EmitJump(CompileExpr(c, stmt.condition), "JumpIfFalse")
      [] stmt.k = "While" ->
            EmitJump(CompileExpr(PushLoop(c, ChunkLen(c)), stmt.condition), "JumpIfFalse")
      [] stmt.k = "For" ->
            ForCondition(PushLoop(ForLocals(c, stmt), ChunkLen(ForLocals(c, stmt))))
      [] stmt.k = "Expr" ->
            EmitJump(CompileExpr(c, stmt.expr.left),
                     IF stmt.expr.op = "And" THEN "JumpIfFalse" ELSE "JumpIfTrue")

\* loop_start of the loop statement stmt
LoopStartOf(c, stmt) ==
    IF stmt.k = "For" THEN ChunkLen(ForLocals(c, stmt)) ELSE ChunkLen(c)

\* the length of the chunk when the jump of the condition of stmt is patched
PatchedAt(c, stmt) ==
    CASE stmt.k = "If" -> ChunkLen(IfThen(AtCondition(c, stmt), stmt.then_branch).else_jump[1])
      [] stmt.k = "While" ->
            ChunkLen(EmitLoop(CompileStmt(Emit(AtCondition(c, stmt)[1], "Pop"), stmt.body),
                              LoopStartOf(c, stmt)))
      [] stmt.k = "For" ->
            ChunkLen(EmitLoop(ForIncrement(CompileStmt(
                                  ForPrologue(AtCondition(c, stmt)[1], stmt.var),
                                  stmt.body)),
                              LoopStartOf(c, stmt)))
      [] stmt.k = "Expr" ->
            ChunkLen(CompileExpr(Emit(AtCondition(c, stmt)[1], "Pop"), stmt.expr.right))

\* the length of the chunk when the Jump of an if statement (else_jump) or of
\* a break in a loop is patched
JumpPatchedAt(c, stmt) ==
    IF stmt.k = "If" THEN ChunkLen(CompileStmt(c, stmt)) ELSE PatchedAt(c, stmt) + 1

\* statement stmt has jumps: if, while, for, or a logical expression statement
HasJumps(stmt) == stmt.k = "For" \/ Branches(stmt)

\* C32: when a function of the programs executes a jump of one of its body
\* statements (an if/else, a while, a for or a logical expression, none with
\* another one inside): a JumpIfFalse or JumpIfTrue that is taken sets ip to
\* the length the chunk had when the compiler patched it, so does a Jump
\* (else_jump of an if, a break of a loop), and a Loop sets ip to loop_start.
C32_JumpsLandWherePatched ==
    [][(status = "running" /\ status' = "running" /\ Len(frames) > 0
        /\ last' \in {"Jump", "JumpIfFalse", "JumpIfTrue", "Loop"})
       => \A fn \in {f \in TopFunctions : f.name = FrameFunction} :
             (~BodyPrefix(fn, Len(fn.body)).err.some /\ Frame.chunk.code = BodyCode(fn))
             => \A k \in 1..Len(fn.body) :
                   (/\ HasJumps(fn.body[k])
                    /\ Frame.ip >= ChunkLen(BodyPrefix(fn, k - 1))
                    /\ Frame.ip < ChunkLen(BodyPrefix(fn, k)))
                   => /\ Len(frames') = Len(frames)
                      /\ (last' = "Loop")
                            => frames'[Len(frames')].ip
                                 = LoopStartOf(BodyPrefix(fn, k - 1), fn.body[k])
                      /\ (last' = "Jump")
                            => frames'[Len(frames')].ip
                                 = JumpPatchedAt(BodyPrefix(fn, k - 1), fn.body[k])
                      /\ (last' = "JumpIfFalse" /\ ~IsTruthy(Top))
                            => frames'[Len(frames')].ip
                                 = PatchedAt(BodyPrefix(fn, k - 1), fn.body[k])
                      /\ (last' = "JumpIfTrue" /\ IsTruthy(Top))
                            => frames'[Len(frames')].ip
                                 = PatchedAt(BodyPrefix(fn, k - 1), fn.body[k])]_vars

\* C32: the JumpIfFalse of the first if statement of pick has just been taken
\* with a false condition on the stack and ip is at the Pop of the else path
C32_Witness ==
    /\ last = "JumpIfFalse" /\ status = "running" /\ Len(frames) > 0
    /\ FrameFunction = "pick"
    /\ ~IsTruthy(Top)
    /\ Frame.ip = 18
    /\ CurOp = "Pop"

\* the slot the compiler resolves for x in outer of ProgWide when it compiles
\* get: the index of x in the locals of outer
ResolvedSlotOfX ==
    FindLocal(Current(BodyPrefix(ProgWide[1], WideLets + 1)).locals, "x").v

\* C39: when the VM has made the closure of get in a frame of outer, the one
\* upvalue of the closure is the open upvalue of the stack slot
\* frame.slot + s, where s is the slot that the compiler resolved for the
\* captured variable x, and that slot holds the value of x.
C39_DescriptorCarriesTheSlot ==
    (/\ last = "Closure" /\ status = "running" /\ Len(frames) > 0
     /\ FrameFunction = "outer"
     /\ Top.t = "Closure"
     /\ HeapGet(heap, HeapGet(heap, Top.h).function).name = "get")
    => /\ Len(HeapGet(heap, Top.h).upvalues) = 1
       /\ HeapGet(heap, HeapGet(heap, Top.h).upvalues[1]).location
             = Open(Frame.slot + ResolvedSlotOfX)
       /\ stack[Frame.slot + ResolvedSlotOfX + 1] = Number(7)

====
